---- MODULE Spec2Model ----
(***************************************************************************)
(* Model of the two widgets of stockfish-components:                       *)
(*   - TimeTable.tsx  (the schedule grid): time parsing, visibility,       *)
(*     day bucketing, overlap detection and the action-menu state;         *)
(*   - TextEditor.tsx (the rich-text surface): the document tree, the      *)
(*     selection, the formatting commands and the change notification.     *)
(* Strings are sequences of one-character strings, so that split, Number,  *)
(* toUpperCase, startsWith and the relational operators of the source act  *)
(* on characters as they do in the program.                                *)
(***************************************************************************)
EXTENDS Integers, Sequences, FiniteSets, TLC

VARIABLES
    scheduleData,    \* prop: Schedule[]
    days,            \* customDays || defaultDays (the columns' short labels)
    propStartTime,   \* prop startTime (window start)
    propEndTime,     \* prop endTime (window end)
    showActions,     \* prop showActions
    dropdownOpenId,  \* useState<number | null>
    dropdownRefs,    \* useRef: event id -> the mounted menu element (its column) or null
    buttonRefs,      \* useRef: event id -> the mounted trigger element (its column) or null
    gridLast,        \* the grid handler that ran last, with its arguments
    handleEdit,      \* prop handleEdit is supplied
    handleDelete,    \* prop handleDelete is supplied
    editUrl,         \* prop editUrl ("" when not supplied)
    compact,         \* prop compact
    doc,             \* editorRef.current: the editable surface and its subtree
    sel,             \* window.getSelection(): none, outside the surface, or a range in it
    value,           \* prop value of the render in effect
    emitted,         \* the argument of the last onChange call, if any
    textDirection,   \* useState<'ltr' | 'rtl'>, also style.direction / style.textAlign
    editorIsEmpty,   \* useState(true)
    disabled,        \* prop disabled
    allowedFormats,  \* prop allowedFormats: the formats whose controls are rendered
    disabledAtMount, \* prop disabled of the first render (closed over by undo and redo)
    formattingState, \* useState({bold, italic, ...})
    focused,         \* document.activeElement === editorRef.current
    linkUrlHandler,  \* prop linkUrlHandler: "none" when not supplied
    imageUrlHandler, \* prop imageUrlHandler: "none" when not supplied
    handlerCalls,    \* the calls the last command made to the URL handlers
    form,            \* showLinkDropdown, linkUrl, linkText, showImageDropdown, imageUrl, imageAlt
    edLast           \* the editor handler that ran last

hostProps == <<handleEdit, handleDelete, editUrl, compact>>

gridVars == <<scheduleData, days, propStartTime, propEndTime, showActions,
              dropdownOpenId, dropdownRefs, buttonRefs, gridLast, hostProps>>

urlProps == <<linkUrlHandler, imageUrlHandler>>

editorVars == <<doc, sel, value, emitted, textDirection, editorIsEmpty, disabled,
                allowedFormats, disabledAtMount, formattingState, focused, form, edLast,
                urlProps, handlerCalls>>

vars == <<gridVars, editorVars>>

-----------------------------------------------------------------------------
(* Bounds of the model                                                     *)

MaxEvents == 2

EventIds == 1..MaxEvents

-----------------------------------------------------------------------------
(* Characters and strings                                                  *)

DigitChars == <<"0", "1", "2", "3", "4", "5", "6", "7", "8", "9">>

LowerChars == <<"a", "b", "c", "d", "e", "f", "g", "h", "i", "j", "k", "l", "m",
                "n", "o", "p", "q", "r", "s", "t", "u", "v", "w", "x", "y", "z">>

UpperChars == <<"A", "B", "C", "D", "E", "F", "G", "H", "I", "J", "K", "L", "M",
                "N", "O", "P", "Q", "R", "S", "T", "U", "V", "W", "X", "Y", "Z">>

Range(seq) == { seq[i] : i \in 1..Len(seq) }

IndexIn(c, chars) ==
    IF \E i \in 1..Len(chars) : chars[i] = c
    THEN CHOOSE i \in 1..Len(chars) : chars[i] = c
    ELSE 0

Chars == Range(DigitChars) \cup Range(LowerChars) \cup Range(UpperChars) \cup {":"}

\* UTF-16 code unit of a character: '0'..'9' are 48..57, ':' is 58, 'A' is 65, 'a' is 97.
CharCodes ==
    [c \in Chars |->
        IF IndexIn(c, DigitChars) > 0 THEN 47 + IndexIn(c, DigitChars)
        ELSE IF c = ":" THEN 58
        ELSE IF IndexIn(c, UpperChars) > 0 THEN 64 + IndexIn(c, UpperChars)
        ELSE 96 + IndexIn(c, LowerChars)]

CharCode(c) == CharCodes[c]

\* a < b on JavaScript strings: by code units, a proper prefix is the smaller.
RECURSIVE StrLess(_, _)
StrLess(a, b) ==
    IF b = <<>> THEN FALSE
    ELSE IF a = <<>> THEN TRUE
    ELSE IF CharCode(Head(a)) # CharCode(Head(b))
         THEN CharCode(Head(a)) < CharCode(Head(b))
         ELSE StrLess(Tail(a), Tail(b))

\* String.prototype.toUpperCase on the letters of the day labels.
UpperOf ==
    [c \in Chars |->
        IF IndexIn(c, LowerChars) > 0 THEN UpperChars[IndexIn(c, LowerChars)] ELSE c]

ToUpperChar(c) == UpperOf[c]

toUpperCase(s) == [i \in 1..Len(s) |-> ToUpperChar(s[i])]

startsWith(s, prefix) ==
    /\ Len(prefix) <= Len(s)
    /\ SubSeq(s, 1, Len(prefix)) = prefix

\* String.prototype.split(":"): the pieces between the colons.
RECURSIVE SplitAcc(_, _, _)
SplitAcc(s, cur, acc) ==
    IF s = <<>> THEN Append(acc, cur)
    ELSE IF Head(s) = ":" THEN SplitAcc(Tail(s), <<>>, Append(acc, cur))
    ELSE SplitAcc(Tail(s), Append(cur, Head(s)), acc)

split(s) == SplitAcc(s, <<>>, <<>>)

\* Number(piece) for a piece made of decimal digits ("" is 0, "08" is 8).
RECURSIVE NumberAcc(_, _)
NumberAcc(p, n) ==
    IF p = <<>> THEN n
    ELSE NumberAcc(Tail(p), 10 * n + (IndexIn(Head(p), DigitChars) - 1))

Number(p) == NumberAcc(p, 0)

-----------------------------------------------------------------------------
(* Inputs of the grid: time strings, day strings, day lists, windows       *)

\* The clock readings the host may write, each with the form it is written in:
\* "pad" is HH:MM, "nopad" is H:MM, "sec" is HH:MM:SS with 00 seconds.
TimeInputs ==
    { [h |-> 7,  m |-> 0,  f |-> "pad"],
      [h |-> 8,  m |-> 0,  f |-> "pad"],
      [h |-> 8,  m |-> 30, f |-> "nopad"],
      [h |-> 9,  m |-> 0,  f |-> "pad"],
      [h |-> 9,  m |-> 0,  f |-> "sec"],
      [h |-> 16, m |-> 0,  f |-> "pad"],
      [h |-> 16, m |-> 1,  f |-> "pad"] }

Pad2(n) == <<DigitChars[(n \div 10) + 1], DigitChars[(n % 10) + 1]>>

NoPad(n) == IF n < 10 THEN <<DigitChars[n + 1]>> ELSE Pad2(n)

\* The time string the host writes for a clock reading.
TimeString(t) ==
    CASE t.f = "pad"   -> Pad2(t.h) \o <<":">> \o Pad2(t.m)
      [] t.f = "nopad" -> NoPad(t.h) \o <<":">> \o Pad2(t.m)
      [] t.f = "sec"   -> Pad2(t.h) \o <<":">> \o Pad2(t.m) \o <<":", "0", "0">>

TimeStrings == { TimeString(t) : t \in TimeInputs }

\* Minutes since midnight of the clock reading a time string was written for.
ClockMinutes(str) ==
    LET t == CHOOSE t \in TimeInputs : TimeString(t) = str
    IN  t.h * 60 + t.m

DaySaturday == <<"S", "a", "t", "u", "r", "d", "a", "y">>
DaySat == <<"S", "a", "t">>
DaySunLower == <<"s", "u", "n">>
DayThursday == <<"T", "h", "u", "r", "s", "d", "a", "y">>

defaultDays ==
    << <<"S", "a", "t">>, <<"S", "u", "n">>, <<"M", "o", "n">>, <<"T", "u", "e">>,
       <<"W", "e", "d">>, <<"T", "h", "u">>, <<"F", "r", "i">> >>

\* A customDays list a host may pass: the one- and two-letter weekday labels.
LetterDays == << <<"M">>, <<"T">>, <<"W">>, <<"T", "h">>, <<"F">> >>

DayLists == {defaultDays, LetterDays}

T0700 == <<"0", "7", ":", "0", "0">>
T0800 == <<"0", "8", ":", "0", "0">>
T0900 == <<"0", "9", ":", "0", "0">>
T1600 == <<"1", "6", ":", "0", "0">>

\* The visible windows used: the default 07:00-16:00 and a narrow 08:00-09:00.
Windows == { <<T0700, T1600>>, <<T0800, T0900>> }

\* Every pair of time strings on "Saturday", and two events of another column.
LayoutEvents ==
    { [day |-> DaySaturday, startTime |-> s, endTime |-> e] :
        s \in TimeStrings, e \in TimeStrings }
      \cup { [day |-> DaySunLower, startTime |-> T0800, endTime |-> e] : e \in {T0900, T1600} }

\* A small pool for the action-menu machine: visible or not by window, and on a
\* day that the letter labels put into two columns (T and Th) or into none.
MenuEvents ==
    { [day |-> d, startTime |-> w[1], endTime |-> w[2]] :
        d \in {DayThursday, DaySat}, w \in { <<T0800, T0900>>, <<T0700, T0800>> } }

DayStrings == {DaySaturday, DaySat, DaySunLower, DayThursday}

\* Events for the day bucketing: every day string used, with intervals that
\* overlap on the clock (written 8:30-16:00, 8:30-09:00 and 08:00-09:00).
BucketEvents ==
    { [day |-> d, startTime |-> TimeString(w[1]), endTime |-> TimeString(w[2])] :
        d \in DayStrings,
        w \in { << [h |-> 8, m |-> 30, f |-> "nopad"], [h |-> 16, m |-> 0, f |-> "pad"] >>,
                << [h |-> 8, m |-> 30, f |-> "nopad"], [h |-> 9, m |-> 0, f |-> "pad"] >>,
                << [h |-> 8, m |-> 0, f |-> "pad"], [h |-> 9, m |-> 0, f |-> "pad"] >> } }

DayNames == Range(defaultDays) \cup Range(LetterDays)

AllTimeStrings == TimeStrings \cup {T0700, T0800, T0900, T1600}

NoId == 0

\* The action props a host passes: both callbacks; both and an edit URL; an
\* edit URL without the edit callback; only the edit callback.
MenuConfigs ==
    { [handleEdit |-> TRUE,  handleDelete |-> TRUE,  editUrl |-> <<>>],
      [handleEdit |-> TRUE,  handleDelete |-> TRUE,  editUrl |-> <<"e">>],
      [handleEdit |-> FALSE, handleDelete |-> TRUE,  editUrl |-> <<"e">>],
      [handleEdit |-> TRUE,  handleDelete |-> FALSE, editUrl |-> <<>>] }

NoCol == 0

-----------------------------------------------------------------------------
(* TimeTable.tsx: pure layout functions                                    *)

\* const [hours, minutes] = time.split(":").map(Number); hours * 60 + minutes
TimeInMinutes(time) ==
    LET parts == split(time)
    IN  Number(parts[1]) * 60 + Number(parts[2])

\* TimeInMinutes, StrLess and the day match tabulated once over the strings used.
MinutesOf == [s \in AllTimeStrings |-> TimeInMinutes(s)]

LessTable == [p \in AllTimeStrings \X AllTimeStrings |-> StrLess(p[1], p[2])]

DayMatchTable ==
    [p \in DayStrings \X DayNames |-> startsWith(toUpperCase(p[1]), toUpperCase(p[2]))]

Lt(a, b) == LessTable[<<a, b>>]

Le(a, b) == a = b \/ LessTable[<<a, b>>]

isTimeInRange_StrictEnd(time, st, et) ==
    /\ MinutesOf[time] >= MinutesOf[st]
    /\ MinutesOf[time] < MinutesOf[et]

isTimeInRange(time, st, et) ==
    /\ MinutesOf[time] >= MinutesOf[st]
    /\ MinutesOf[time] <= MinutesOf[et]

\* A JavaScript number that is a quotient of integers, kept as the quotient.
Frac(num, den) == [num |-> num, den |-> den]

\* a === b and a < b on such numbers (denominators positive).
FracEq(a, b) == a.num * b.den = b.num * a.den

FracLess(a, b) == a.num * b.den < b.num * a.den

\* Math.max(a, b)
FracMax(a, b) == IF FracLess(a, b) THEN b ELSE a

timeToPosition_HourOnly(time, st, et) ==
    Frac(((MinutesOf[time] \div 60) * 60 - MinutesOf[st]) * 100,
         MinutesOf[et] - MinutesOf[st])

\* timeToPosition: (minutesSinceStartOfDay / totalDayMinutes) * 100
timeToPosition(time, st, et) ==
    Frac((MinutesOf[time] - MinutesOf[st]) * 100, MinutesOf[et] - MinutesOf[st])

\* calculateHeight: (durationInMinutes / totalDayMinutes) * 100
calculateHeight(st, et, dayStart, dayEnd) ==
    Frac((MinutesOf[et] - MinutesOf[st]) * 100, MinutesOf[dayEnd] - MinutesOf[dayStart])

\* style.top of the card of ev.
Top(ev) == timeToPosition(ev.startTime, propStartTime, propEndTime)

RenderedHeight_NoFloor(ev) ==
    calculateHeight(ev.startTime, ev.endTime, propStartTime, propEndTime)

\* style.height of the card of ev: Math.max(height, compact ? 8 : 10)
RenderedHeight(ev) ==
    FracMax(calculateHeight(ev.startTime, ev.endTime, propStartTime, propEndTime),
            Frac(IF compact THEN 8 ELSE 10, 1))

isEventVisible(ev) ==
    /\ isTimeInRange(ev.startTime, propStartTime, propEndTime)
    /\ isTimeInRange(ev.endTime, propStartTime, propEndTime)

\* The three-way test of findOverlappingEvents; >=, <, >, <= act on the time
\* strings themselves, as in the source.
findOverlappingEvents(currentEvent, dayEvents) ==
    SelectSeq(dayEvents, LAMBDA ev :
        /\ ev.id # currentEvent.id
        /\ \/ /\ Le(currentEvent.startTime, ev.startTime)
              /\ Lt(ev.startTime, currentEvent.endTime)
           \/ /\ Lt(currentEvent.startTime, ev.endTime)
              /\ Le(ev.endTime, currentEvent.endTime)
           \/ /\ Le(ev.startTime, currentEvent.startTime)
              /\ Le(currentEvent.endTime, ev.endTime))

Columns == 1..Len(days)

\* scheduleData.filter(event => event.day.toUpperCase().startsWith(day.name.toUpperCase()))
DayEvents(c) ==
    SelectSeq(scheduleData, LAMBDA ev : DayMatchTable[<<ev.day, days[c]>>])

\* dayEvents.filter(isEventVisible): the event cards of column c.
RenderedEvents(c) == SelectSeq(DayEvents(c), isEventVisible)

IdsOf(seq) == { seq[i].id : i \in 1..Len(seq) }

\* The overlap list the render computes for the card of ev in column c.
overlappingEvents(c, ev) == findOverlappingEvents(ev, RenderedEvents(c))

\* {showActions && (<button ref=...>)}: the trigger of event id in column c is mounted.
TriggerShown(c, id) == showActions /\ id \in IdsOf(RenderedEvents(c))

\* {dropdownOpenId === event.id && showActions && (<div ref=...>)}
MenuShown(c, id) == TriggerShown(c, id) /\ dropdownOpenId = id

\* The menus on screen: one per column instance of the event whose id is open.
DisplayedMenus == { <<c, id>> \in Columns \X EventIds : MenuShown(c, id) }

LastCol(S) == IF S = {} THEN NoCol ELSE CHOOSE c \in S : \A d \in S : d <= c

\* The callback refs after a commit: every mounted instance re-attaches in
\* document order, an unmounted one detaches with null.
MenuRefAfterCommit(id) ==
    LET shown == { c \in Columns : MenuShown(c, id) }
    IN  LastCol(shown)

ButtonRefAfterCommit(id) ==
    LET shown == { c \in Columns : TriggerShown(c, id) }
    IN  LastCol(shown)

Commit ==
    /\ dropdownRefs' = [id \in EventIds |-> MenuRefAfterCommit(id)']
    /\ buttonRefs' = [id \in EventIds |-> ButtonRefAfterCommit(id)']


-----------------------------------------------------------------------------
(* TimeTable.tsx: the host's renders and the grid's handlers               *)

FreshId == CHOOSE id \in EventIds : id \notin IdsOf(scheduleData) /\
               \A j \in EventIds : j \notin IdsOf(scheduleData) => id <= j

RemoveAt(seq, i) == SubSeq(seq, 1, i - 1) \o SubSeq(seq, i + 1, Len(seq))

GridStep(op, col, id) == [op |-> op, col |-> col, id |-> id, was |-> dropdownOpenId]

\* The host renders with one more event in scheduleData.
HostAddEvent(e) ==
    /\ Len(scheduleData) < MaxEvents
    /\ scheduleData' = Append(scheduleData,
           [id |-> FreshId, day |-> e.day, startTime |-> e.startTime, endTime |-> e.endTime])
    /\ UNCHANGED <<days, propStartTime, propEndTime, showActions, dropdownOpenId>>
    /\ gridLast' = GridStep("host", NoCol, NoId)
    /\ Commit
    /\ UNCHANGED <<hostProps, editorVars>>

\* The host renders with an event taken out of scheduleData.
HostRemoveEvent(i) ==
    /\ i \in 1..Len(scheduleData)
    /\ scheduleData' = RemoveAt(scheduleData, i)
    /\ UNCHANGED <<days, propStartTime, propEndTime, showActions, dropdownOpenId>>
    /\ gridLast' = GridStep("host", NoCol, NoId)
    /\ Commit
    /\ UNCHANGED <<hostProps, editorVars>>

\* The host renders with another visible window (props startTime, endTime).
HostSetWindow(w) ==
    /\ <<propStartTime, propEndTime>> # w
    /\ propStartTime' = w[1]
    /\ propEndTime' = w[2]
    /\ UNCHANGED <<scheduleData, days, showActions, dropdownOpenId>>
    /\ gridLast' = GridStep("host", NoCol, NoId)
    /\ Commit
    /\ UNCHANGED <<hostProps, editorVars>>

\* The host renders with another day list (prop customDays).
HostSetDays(d) ==
    /\ days # d
    /\ days' = d
    /\ UNCHANGED <<scheduleData, propStartTime, propEndTime, showActions, dropdownOpenId>>
    /\ gridLast' = GridStep("host", NoCol, NoId)
    /\ Commit
    /\ UNCHANGED <<hostProps, editorVars>>

\* The host renders with prop showActions flipped.
HostSetShowActions ==
    /\ showActions' = ~showActions
    /\ UNCHANGED <<scheduleData, days, propStartTime, propEndTime, dropdownOpenId>>
    /\ gridLast' = GridStep("host", NoCol, NoId)
    /\ Commit
    /\ UNCHANGED <<hostProps, editorVars>>

\* What a pointer press can land on: the menu, the trigger or the card of a
\* mounted instance, or anything else in the document.
PressTargets ==
    { [kind |-> "outside", col |-> NoCol, id |-> NoId] }
      \cup { [kind |-> "menu", col |-> c, id |-> id] :
                 <<c, id>> \in { x \in Columns \X EventIds : MenuShown(x[1], x[2]) } }
      \cup { [kind |-> "trigger", col |-> c, id |-> id] :
                 <<c, id>> \in { x \in Columns \X EventIds : TriggerShown(x[1], x[2]) } }
      \cup { [kind |-> "card", col |-> c, id |-> id] :
                 <<c, id>> \in { x \in Columns \X EventIds : x[2] \in IdsOf(RenderedEvents(x[1])) } }

\* element.contains(event.target) for the element a ref holds (column col of event id).
RefContains(kind, col, id, target) ==
    target.kind = kind /\ target.col = col /\ target.id = id


\* handleClickOutside: the value of dropdownOpenId after a mousedown on target.
handleClickOutside(target) ==
    IF /\ dropdownOpenId # NoId
       /\ dropdownRefs[dropdownOpenId] # NoCol
       /\ buttonRefs[dropdownOpenId] # NoCol
       /\ ~RefContains("menu", dropdownRefs[dropdownOpenId], dropdownOpenId, target)
       /\ ~RefContains("trigger", buttonRefs[dropdownOpenId], dropdownOpenId, target)
    THEN NoId
    ELSE dropdownOpenId

\* document "mousedown" listener.
MouseDown(target) ==
    /\ target \in PressTargets
    /\ dropdownOpenId' = handleClickOutside(target)
    /\ UNCHANGED <<scheduleData, days, propStartTime, propEndTime, showActions>>
    /\ gridLast' = [op |-> "mousedown", col |-> target.col, id |-> target.id,
                    was |-> dropdownOpenId, kind |-> target.kind,
                    inMenu |-> (target.kind = "menu" /\ target.id = dropdownOpenId),
                    onTrigger |-> (target.kind = "trigger" /\ target.id = dropdownOpenId)]
    /\ Commit
    /\ UNCHANGED <<hostProps, editorVars>>

\* toggleDropdown: setDropdownOpenId(dropdownOpenId === id ? null : id)
toggleDropdown(id) == IF dropdownOpenId = id THEN NoId ELSE id

\* The trigger button is a child of the event card; the menu with its Edit
\* and Delete buttons is a sibling of the card.
InsideCard(target) == target \in {"card", "trigger"}

\* No handler calling e.stopPropagation().
stopPropagation_Never(target) == FALSE

\* The click handlers that call e.stopPropagation().
stopPropagation(target) == target \in {"trigger", "edit", "delete"}

\* The card's onClick, onEventClick?.(event), for a click that reaches it.
CardClickCalls(target, id) ==
    IF InsideCard(target) /\ ~stopPropagation(target)
    THEN << [fn |-> "onEventClick", arg |-> id] >>
    ELSE <<>>

\* onClick of the trigger button of event id in column c (pointer or keyboard).
ClickTrigger(c, id) ==
    /\ TriggerShown(c, id)
    /\ dropdownOpenId' = toggleDropdown(id)
    /\ UNCHANGED <<scheduleData, days, propStartTime, propEndTime, showActions>>
    /\ gridLast' = GridStep("toggle", c, id) @@ ("calls" :> CardClickCalls("trigger", id))
    /\ Commit
    /\ UNCHANGED <<hostProps, editorVars>>

\* onClick of the card of event id in column c.
ClickCard(c, id) ==
    /\ id \in IdsOf(RenderedEvents(c))
    /\ UNCHANGED <<scheduleData, days, propStartTime, propEndTime, showActions, dropdownOpenId>>
    /\ gridLast' = GridStep("card", c, id) @@ ("calls" :> CardClickCalls("card", id))
    /\ Commit
    /\ UNCHANGED <<hostProps, editorVars>>

\* {handleEdit && (<button ...>Edit</button>)} inside the mounted menu.
EditShown(c, id) == MenuShown(c, id) /\ handleEdit

\* {handleDelete && (<button ...>Delete</button>)} inside the mounted menu.
DeleteShown(c, id) == MenuShown(c, id) /\ handleDelete

\* `${editUrl}/${event.id}`
EditTarget(id) == editUrl \o <<"/">> \o NoPad(id)

\* The calls the Edit button's onClick makes for event id.
EditCalls(id) ==
    IF editUrl # <<>>
    THEN << [fn |-> "window.open", arg |-> EditTarget(id)] >>
    ELSE << [fn |-> "handleEdit", arg |-> id] >>

\* onClick of the Edit button of the menu of event id in column c.
ClickEdit(c, id) ==
    /\ EditShown(c, id)
    /\ dropdownOpenId' = NoId
    /\ UNCHANGED <<scheduleData, days, propStartTime, propEndTime, showActions>>
    /\ gridLast' = [op |-> "edit", col |-> c, id |-> id, was |-> dropdownOpenId,
                    calls |-> EditCalls(id) \o CardClickCalls("edit", id)]
    /\ Commit
    /\ UNCHANGED <<hostProps, editorVars>>

\* onClick of the Delete button of the menu of event id in column c.
ClickDelete(c, id) ==
    /\ DeleteShown(c, id)
    /\ dropdownOpenId' = NoId
    /\ UNCHANGED <<scheduleData, days, propStartTime, propEndTime, showActions>>
    /\ gridLast' = [op |-> "delete", col |-> c, id |-> id, was |-> dropdownOpenId,
                    calls |-> << [fn |-> "handleDelete", arg |-> id] >>
                                 \o CardClickCalls("delete", id)]
    /\ Commit
    /\ UNCHANGED <<hostProps, editorVars>>

-----------------------------------------------------------------------------
(* TextEditor.tsx: the document tree under the editable surface            *)

\* Most nodes the surface may hold (a guard of the model's actions).
MaxNodes == 2

\* Most characters the user may have typed into the surface.
MaxText == 1

Front(s) == SubSeq(s, 1, Len(s) - 1)

Last(s) == s[Len(s)]

\* A Text node; data is its sequence of code points.
TextNode(data) ==
    [tag |-> "#text", kids |-> <<>>, data |-> data, url |-> <<>>, alt |-> <<>>, align |-> ""]

\* An element without attributes of interest.
Element(tag, kids) ==
    [tag |-> tag, kids |-> kids, data |-> <<>>, url |-> <<>>, alt |-> <<>>, align |-> ""]

\* The editable div with the given child nodes.
Surface(kids) == Element("div", kids)

\* Elements the HTML serializer writes without content and end tag.
VoidTags == {"img", "br"}

\* '&#8203;': the zero-width space the toggles put into a fresh element.
ZWSP == 8203

\* "Quote text here..."
QuoteText == <<81, 117, 111, 116, 101, 32, 116, 101, 120, 116, 32, 104, 101, 114, 101,
               46, 46, 46>>

RECURSIVE NodeAt(_, _)
NodeAt(n, p) == IF p = <<>> THEN n ELSE NodeAt(n.kids[Head(p)], Tail(p))

\* The tree n with the node at the non-empty path p replaced by the nodes ns.
RECURSIVE ReplaceAt(_, _, _)
ReplaceAt(n, p, ns) ==
    IF Len(p) = 1
    THEN [n EXCEPT !.kids = SubSeq(@, 1, p[1] - 1) \o ns \o SubSeq(@, p[1] + 1, Len(@))]
    ELSE [n EXCEPT !.kids[Head(p)] = ReplaceAt(@, Tail(p), ns)]

SetNode(n, p, m) == IF p = <<>> THEN m ELSE ReplaceAt(n, p, <<m>>)

RECURSIVE CountNodes(_)
CountNodes(kids) ==
    IF kids = <<>> THEN 0
    ELSE 1 + CountNodes(Head(kids).kids) + CountNodes(Tail(kids))

\* node.textContent: the data of the Text descendants in document order.
RECURSIVE TextContent(_)
TextContent(kids) ==
    IF kids = <<>> THEN <<>>
    ELSE (IF Head(kids).tag = "#text" THEN Head(kids).data ELSE TextContent(Head(kids).kids))
             \o TextContent(Tail(kids))

\* Markup strings are sequences of tokens: a character, a start tag with the
\* attributes the widget writes, or an end tag.
CharTok(c) == [k |-> "char", n |-> "", c |-> c, url |-> <<>>, alt |-> <<>>, align |-> ""]

OpenTok(n) ==
    [k |-> "open", n |-> n.tag, c |-> 0, url |-> n.url, alt |-> n.alt, align |-> n.align]

CloseTok(tag) == [k |-> "close", n |-> tag, c |-> 0, url |-> <<>>, alt |-> <<>>, align |-> ""]

\* element.innerHTML (getter): the HTML serialization of the child nodes.
RECURSIVE InnerHTML(_)
InnerHTML(kids) ==
    IF kids = <<>> THEN <<>>
    ELSE LET n == Head(kids)
             own == IF n.tag = "#text"
                    THEN [i \in 1..Len(n.data) |-> CharTok(n.data[i])]
                    ELSE IF n.tag \in VoidTags
                    THEN <<OpenTok(n)>>
                    ELSE <<OpenTok(n)>> \o InnerHTML(n.kids)
                             \o <<CloseTok(n.tag)>>
         IN  own \o InnerHTML(Tail(kids))

\* The element a start tag creates.
ElementOf(t) == [Element(t.n, <<>>) EXCEPT !.url = t.url, !.alt = t.alt, !.align = t.align]

\* The open elements of the parser with one more child on the innermost; a
\* character joins a preceding Text node.
AppendKid(stack, node) ==
    LET top == Last(stack)
        ks == top.kids
        merged == IF node.tag = "#text" /\ ks # <<>> /\ Last(ks).tag = "#text"
                  THEN Append(Front(ks), TextNode(Last(ks).data \o node.data))
                  ELSE Append(ks, node)
    IN  Append(Front(stack), [top EXCEPT !.kids = merged])

\* The innermost open element is closed and becomes a child of the one around it.
PopOne(stack) == AppendKid(Front(stack), Last(stack))

RECURSIVE PopTo(_, _)
PopTo(stack, tag) ==
    IF Last(stack).tag = tag THEN PopOne(stack) ELSE PopTo(PopOne(stack), tag)

RECURSIVE CloseAll(_)
CloseAll(stack) == IF Len(stack) = 1 THEN stack[1].kids ELSE CloseAll(PopOne(stack))

RECURSIVE ParseAcc(_, _)
ParseAcc(toks, stack) ==
    IF toks = <<>> THEN CloseAll(stack)
    ELSE LET t == Head(toks) IN
         CASE t.k = "char" -> ParseAcc(Tail(toks), AppendKid(stack, TextNode(<<t.c>>)))
           [] t.k = "open" ->
                IF t.n \in VoidTags
                THEN ParseAcc(Tail(toks), AppendKid(stack, ElementOf(t)))
                ELSE ParseAcc(Tail(toks), Append(stack, ElementOf(t)))
           [] t.k = "close" ->
                IF \E i \in 2..Len(stack) : stack[i].tag = t.n
                THEN ParseAcc(Tail(toks), PopTo(stack, t.n))
                ELSE ParseAcc(Tail(toks), stack)

\* element.innerHTML = markup (setter): the fragment parser; an element left
\* open is closed at the end, an end tag without its element is dropped.
ParseHTML(markup) == ParseAcc(markup, <<Surface(<<>>)>>)

\* arabicRegex = /[\u0600-\u06FF\u0750-\u077F]/ tested on the text.
arabicRegex(text) ==
    \E i \in 1..Len(text) :
        \/ (text[i] >= 1536 /\ text[i] <= 1791)
        \/ (text[i] >= 1872 /\ text[i] <= 1919)

\* The code points String.prototype.trim removes that the model's texts can hold.
WhiteSpace == {9, 10, 11, 12, 13, 32, 160}

\* text.trim() === ""
TrimIsEmpty(text) == \A i \in 1..Len(text) : text[i] \in WhiteSpace

-----------------------------------------------------------------------------
(* TextEditor.tsx: the selection and the DOM range operations              *)

\* selection.rangeCount === 0
NoSelection == [kind |-> "none", path |-> <<>>, so |-> 0, eo |-> 0]

\* A range whose commonAncestorContainer is not inside the surface.
OutsideSelection == [kind |-> "outside", path |-> <<>>, so |-> 0, eo |-> 0]

\* A range with both boundary points in the node at path: offsets so..eo.
InRange(path, so, eo) == [kind |-> "in", path |-> path, so |-> so, eo |-> eo]

Caret(path, o) == InRange(path, o, o)

\* The length of a node: of its data for a Text node, else of its child list.
NodeLength(n) == IF n.tag = "#text" THEN Len(n.data) ELSE Len(n.kids)

RECURSIVE PathsOf(_, _)
PathsOf(n, p) ==
    {p} \cup UNION { PathsOf(n.kids[i], Append(p, i)) : i \in 1..Len(n.kids) }

\* The offsets a user's range may use in a node of the given length: the first
\* few and the end.
SelOffsets(len) == { o \in 0..len : o <= MaxText \/ o = len }

RangesIn(p, len) ==
    { InRange(p, x[1], x[2]) :
        x \in { y \in SelOffsets(len) \X SelOffsets(len) : y[1] <= y[2] } }

\* The ranges a user can make in the surface with both ends in one node.
UserRanges(root) ==
    UNION { RangesIn(p, NodeLength(NodeAt(root, p))) :
              p \in { q \in PathsOf(root, <<>>) : NodeAt(root, q).tag \notin VoidTags } }

\* selection.toString()
SelectedText(root, s) ==
    IF s.kind # "in" THEN <<>>
    ELSE LET c == NodeAt(root, s.path)
         IN  IF c.tag = "#text" THEN SubSeq(c.data, s.so + 1, s.eo)
             ELSE TextContent(SubSeq(c.kids, s.so + 1, s.eo))

\* range.extractContents() on a range inside one node: the tree left behind and
\* the fragment taken out; the range is left collapsed at its start.
extractContents(root, s) ==
    LET c == NodeAt(root, s.path)
    IN  IF c.tag = "#text"
        THEN [doc  |-> SetNode(root, s.path,
                           [c EXCEPT !.data = SubSeq(@, 1, s.so) \o SubSeq(@, s.eo + 1, Len(@))]),
              frag |-> IF s.so = s.eo THEN <<>> ELSE <<TextNode(SubSeq(c.data, s.so + 1, s.eo))>>]
        ELSE [doc  |-> SetNode(root, s.path,
                           [c EXCEPT !.kids = SubSeq(@, 1, s.so) \o SubSeq(@, s.eo + 1, Len(@))]),
              frag |-> SubSeq(c.kids, s.so + 1, s.eo)]

insertNode_AtEnd(root, path, o, node) ==
    [doc |-> [root EXCEPT !.kids = Append(@, node)], at |-> <<Len(root.kids) + 1>>]

\* range.insertNode(node) for a range starting at offset o of the node at path:
\* a Text start node is split at o and the node goes between the halves, else
\* the node becomes child o of the start node.  "at" is the path of the node.
insertNode(root, path, o, node) ==
    LET c == NodeAt(root, path)
    IN  IF c.tag = "#text"
        THEN [doc |-> ReplaceAt(root, path,
                          << [c EXCEPT !.data = SubSeq(@, 1, o)], node,
                             TextNode(SubSeq(c.data, o + 1, Len(c.data))) >>),
              at  |-> Append(Front(path), Last(path) + 1)]
        ELSE [doc |-> SetNode(root, path,
                          [c EXCEPT !.kids = SubSeq(@, 1, o) \o <<node>> \o SubSeq(@, o + 1, Len(@))]),
              at  |-> Append(path, o + 1)]

\* editorRef.current.appendChild(node) / insertAdjacentHTML('beforeend', ...)
appendChild(root, node) ==
    [doc |-> [root EXCEPT !.kids = Append(@, node)], at |-> <<Len(root.kids) + 1>>]

\* range.selectNodeContents(node) for the node at path.
selectNodeContents(root, path) == InRange(path, 0, NodeLength(NodeAt(root, path)))

\* editorRef.current.focus(): the selections window.getSelection() may hold
\* afterwards.  A surface that is not editable is not focusable; a browser that
\* focuses an editable surface holding no selection may put a caret at its start.
focus(s, dis) ==
    IF dis \/ s.kind = "in" THEN {s} ELSE {s, Caret(<<>>, 0)}

-----------------------------------------------------------------------------
(* TextEditor.tsx: handleChange, the toggles and the structured insertions *)

NothingEmitted == [some |-> FALSE, html |-> <<>>]


handleChange_NoCallback(root) ==
    [emitted       |-> emitted,
     textDirection |-> IF arabicRegex(TextContent(root.kids)) THEN "rtl" ELSE "ltr",
     editorIsEmpty |-> TrimIsEmpty(TextContent(root.kids))]

\* handleChange: the direction from the text, onChange(innerHTML), the empty flag.
handleChange(root) ==
    [emitted       |-> [some |-> TRUE, html |-> InnerHTML(root.kids)],
     textDirection |-> IF arabicRegex(TextContent(root.kids)) THEN "rtl" ELSE "ltr",
     editorIsEmpty |-> TrimIsEmpty(TextContent(root.kids))]

NoFormatting ==
    [bold |-> FALSE, italic |-> FALSE, underline |-> FALSE, strikeThrough |-> FALSE,
     alignLeft |-> FALSE, alignCenter |-> FALSE, alignRight |-> FALSE,
     orderedList |-> FALSE, unorderedList |-> FALSE]

\* updateFormattingState looking at the anchor node only.
updateFormattingState_AnchorOnly(root, s, old) ==
    IF s.kind = "none" THEN old
    ELSE IF s.kind = "outside" \/ s.path = <<>> THEN NoFormatting
    ELSE LET n == NodeAt(root, s.path)
         IN  [bold |-> n.tag \in {"strong", "b"},
              italic |-> n.tag \in {"em", "i"},
              underline |-> n.tag = "u",
              strikeThrough |-> n.tag \in {"s", "strike"},
              alignLeft |-> n.align = "left",
              alignCenter |-> n.align = "center",
              alignRight |-> n.align = "right",
              orderedList |-> n.tag = "ol",
              unorderedList |-> n.tag = "ul"]

\* updateFormattingState: the walk from the anchor node up to the surface.
updateFormattingState(root, s, old) ==
    IF s.kind = "none" THEN old
    ELSE IF s.kind = "outside" THEN NoFormatting
    ELSE LET chain == { NodeAt(root, SubSeq(s.path, 1, i)) : i \in 1..Len(s.path) }
             tags == { n.tag : n \in chain }
             aligns == { n.align : n \in chain }
         IN  [bold |-> tags \cap {"strong", "b"} # {},
              italic |-> tags \cap {"em", "i"} # {},
              underline |-> "u" \in tags,
              strikeThrough |-> tags \cap {"s", "strike"} # {},
              alignLeft |-> "left" \in aligns,
              alignCenter |-> "center" \in aligns,
              alignRight |-> "right" \in aligns,
              orderedList |-> "ol" \in tags,
              unorderedList |-> "ul" \in tags]

\* What a handler did: the tree and selection it left, whether it called
\* handleChange, updateFormattingState and editorRef.current.focus().
Done(d, s, notify, fmt, foc) ==
    [doc |-> d, sel |-> s, notify |-> notify, fmt |-> fmt, focus |-> foc]

\* The tag of range.commonAncestorContainer.parentElement; the surface itself
\* sits in a div.
\* The tag of the element above parentElement.
ParentTag_Grandparent(root, s) ==
    IF Len(s.path) < 2 THEN "div" ELSE NodeAt(root, Front(Front(s.path))).tag

ParentTag(root, s) == IF s.path = <<>> THEN "div" ELSE NodeAt(root, Front(s.path)).tag

\* The unwrap branch removing parentElement together with its children.
Unwrap_DropChildren(root, s) ==
    LET q == Front(s.path)
    IN  Done(ReplaceAt(root, q, <<>>), Caret(Front(q), Last(q) - 1), TRUE, TRUE, FALSE)

\* The unwrap branch: the children of parentElement move before it, it is
\* removed, and the live range collapses to where it was taken out.
Unwrap(root, s) ==
    LET q == Front(s.path)
        pe == NodeAt(root, q)
    IN  Done(ReplaceAt(root, q, pe.kids),
             Caret(Front(q), (Last(q) - 1) + Len(pe.kids)), TRUE, TRUE, FALSE)

wrapSelectionWithTag_AppendOutside(root, s, tagName) ==
    LET r == appendChild(root, Element(tagName, <<TextNode(<<ZWSP>>)>>))
    IN  Done(r.doc, Caret(r.at, 0), TRUE, TRUE, TRUE)

wrapSelectionWithTag(root, s, tagName) ==
    IF s.kind = "none"
    THEN LET r == appendChild(root, Element(tagName, <<TextNode(<<ZWSP>>)>>))
         IN  Done(r.doc, Caret(r.at, 0), TRUE, TRUE, TRUE)
    ELSE IF s.kind = "outside"
    THEN Done(root, s, FALSE, FALSE, FALSE)
    ELSE IF ParentTag(root, s) = tagName
    THEN Unwrap(root, s)
    ELSE IF s.so # s.eo
    THEN LET ex == extractContents(root, s)
             r == insertNode(ex.doc, s.path, s.so, Element(tagName, ex.frag))
         IN  Done(r.doc, selectNodeContents(r.doc, r.at), TRUE, TRUE, FALSE)
    ELSE LET r == insertNode(root, s.path, s.so, Element(tagName, <<TextNode(<<ZWSP>>)>>))
         IN  Done(r.doc, Caret(r.at, 0), TRUE, TRUE, FALSE)

\* The value the HTML parser gives an attribute written "${v}" in the
\* markup: the characters before the first quotation mark.
AttrValue(v) ==
    LET quotes == { i \in 1..Len(v) : v[i] = 34 }
    IN  IF quotes = {} THEN v
        ELSE SubSeq(v, 1, (CHOOSE i \in quotes : \A j \in quotes : i <= j) - 1)

\* A URL handler of the host: a proxy that puts "p" in front of the URL.
CallHandler(handler, url) == IF handler = "proxy" THEN <<112>> \o url ELSE url

\* linkUrlHandler ? linkUrlHandler(linkUrl) : linkUrl
ProcessedUrl(handler, url) == IF handler # "none" THEN CallHandler(handler, url) ELSE url

\* The handler calls that evaluation made.
CallsFor(handler, fn, url) ==
    IF handler # "none" THEN << [fn |-> fn, arg |-> url] >> ELSE <<>>

\* tempDiv.innerHTML = linkHTML; tempDiv.firstChild
LinkElement(url, text) ==
    [Element("a", <<TextNode(text)>>) EXCEPT !.url = AttrValue(url)]

\* "Image"
DefaultAlt == <<73, 109, 97, 103, 101>>

ImageElement(url, alt) ==
    [Element("img", <<>>) EXCEPT !.url = AttrValue(url),
                                 !.alt = IF alt = <<>> THEN DefaultAlt ELSE alt]

\* The common body of insertLink and insertImage once the surface has focus:
\* s is the selection read after focus().
InsertInline(root, s, node) ==
    IF s.kind = "in"
    THEN LET ex == extractContents(root, s)
             r == insertNode(ex.doc, s.path, s.so, node)
         IN  \* selection.addRange(range) inside the surface: the selectionchange
             \* listener runs updateFormattingState
             Done(r.doc, Caret(Front(r.at), Last(r.at)), TRUE, TRUE, TRUE)
    ELSE Done(appendChild(root, node).doc, s, TRUE, FALSE, TRUE)

insertLink(root, s, url, text) ==
    InsertInline(root, s, LinkElement(ProcessedUrl(linkUrlHandler, url), text))
        @@ ("calls" :> CallsFor(linkUrlHandler, "linkUrlHandler", url))

insertImage(root, s, url, alt) ==
    InsertInline(root, s, ImageElement(ProcessedUrl(imageUrlHandler, url), alt))
        @@ ("calls" :> CallsFor(imageUrlHandler, "imageUrlHandler", url))

\* insertBlockquote does not call updateFormattingState; its
\* selection.addRange inside the surface makes the selectionchange listener
\* call it.
insertBlockquote(root, s) ==
    IF s.kind = "in"
    THEN LET ex == extractContents(root, s)
             kids == IF s.so # s.eo THEN ex.frag ELSE <<TextNode(QuoteText)>>
             r == insertNode(ex.doc, s.path, s.so, Element("blockquote", kids))
         IN  Done(r.doc, selectNodeContents(r.doc, r.at), TRUE, TRUE, FALSE)
    ELSE IF s.kind = "outside"
    THEN Done(root, s, FALSE, FALSE, FALSE)
    ELSE LET r == appendChild(root, Element("blockquote", <<TextNode(QuoteText)>>))
         IN  Done(r.doc, selectNodeContents(r.doc, r.at), TRUE, TRUE, TRUE)

insertCodeBlock(root, s) ==
    IF s.kind = "in"
    THEN LET ex == extractContents(root, s)
             r == insertNode(ex.doc, s.path, s.so,
                             Element("pre", <<Element("code", ex.frag)>>))
         IN  Done(r.doc, selectNodeContents(r.doc, r.at), TRUE, TRUE, FALSE)
    ELSE IF s.kind = "outside"
    THEN Done(root, s, FALSE, FALSE, FALSE)
    ELSE LET r == insertNode(root, <<>>, Len(root.kids),
                             Element("pre", <<Element("code", <<Element("br", <<>>)>>)>>))
         IN  Done(r.doc, Caret(Append(r.at, 1), 0), TRUE, TRUE, FALSE)

\* The seed applyFormat and the select handlers write into an empty surface.
ListItemText == <<76, 105, 115, 116, 32, 105, 116, 101, 109>>

SeedText == <<84, 101, 120, 116>>

IsJustify(command) == command \in {"justifyLeft", "justifyCenter", "justifyRight"}

IsList(command) == command \in {"insertOrderedList", "insertUnorderedList"}

\* editorRef.current.innerHTML.trim() === ''
MarkupIsBlank(root) ==
    LET html == InnerHTML(root.kids)
    IN  \A i \in 1..Len(html) : html[i].k = "char" /\ html[i].c \in WhiteSpace

\* The element document.execCommand builds around the content for a command
\* that takes effect (one representative result per kind of command).
CommandBox(command, kids) ==
    CASE command = "justifyLeft"   -> [Element("div", kids) EXCEPT !.align = "left"]
      [] command = "justifyCenter" -> [Element("div", kids) EXCEPT !.align = "center"]
      [] command = "justifyRight"  -> [Element("div", kids) EXCEPT !.align = "right"]
      [] command = "insertOrderedList"   -> Element("ol", <<Element("li", kids)>>)
      [] command = "insertUnorderedList" -> Element("ul", <<Element("li", kids)>>)
      [] command = "formatBlock" -> Element("h1", kids)
      [] OTHER -> Element("font", kids)

\* document.execCommand(command, false, value): the browser's editing command.
\* It does nothing without an editable surface holding the selection; else it
\* may leave the document as it is, or apply the command: undo and redo put a
\* remembered document back (here the empty one), the others box the content.
execCommand(command, root, s, dis) ==
    IF dis \/ s.kind # "in" THEN { [doc |-> root, sel |-> s] }
    ELSE { [doc |-> root, sel |-> s] } \cup
         ( IF command \in {"undo", "redo"}
           THEN { [doc |-> Surface(<<>>), sel |-> Caret(<<>>, 0)] }
           ELSE LET box == CommandBox(command, root.kids)
                    depth == IF IsList(command) THEN <<1, 1>> ELSE <<1>>
                IN  { [doc |-> Surface(<<box>>), sel |-> [s EXCEPT !.path = depth \o @]] } )

\* applyFormat seeding the justify commands only.
applyFormatSeed_JustifyOnly(root, s, command) ==
    IF IsJustify(command) /\ MarkupIsBlank(root)
    THEN [doc |-> Surface(<<Element("div", <<Element("br", <<>>)>>)>>),
          sel |-> Caret(<<1>>, 0)]
    ELSE [doc |-> root, sel |-> s]

\* applyFormat before document.execCommand: the document and selection it
\* hands to the command, seeded for justify* and the list commands when the
\* markup of the surface is blank.
applyFormatSeed(root, s, command) ==
    IF IsJustify(command) /\ MarkupIsBlank(root)
    THEN [doc |-> Surface(<<Element("div", <<Element("br", <<>>)>>)>>),
          sel |-> Caret(<<1>>, 0)]
    ELSE IF IsList(command) /\ MarkupIsBlank(root)
    THEN [doc |-> Surface(<<Element("div", <<TextNode(ListItemText)>>)>>),
          sel |-> InRange(<<1>>, 0, 1)]
    ELSE [doc |-> root, sel |-> s]

\* applyFormat as the closure of a render with prop disabled = closureDisabled
\* sees it, on a surface whose contentEditable is !dis, with selection s read
\* after focus(): the outcomes it can have.
applyFormat(root, s, command, closureDisabled, dis) ==
    IF closureDisabled THEN { Done(root, s, FALSE, FALSE, FALSE) }
    ELSE LET seeded == applyFormatSeed(root, s, command)
         IN  { Done(x.doc, x.sel, TRUE, TRUE, TRUE) :
                   x \in execCommand(command, seeded.doc, seeded.sel, dis) }

\* changeFontSize / changeFontColor / changeBackgroundColor and the onChange of
\* their controls: focus, seed an empty surface with <span>Text</span>, applyFormat.
changeFontSeed(root, s) ==
    IF MarkupIsBlank(root)
    THEN [doc |-> Surface(<<Element("span", <<TextNode(SeedText)>>)>>),
          sel |-> InRange(<<1>>, 0, 1)]
    ELSE [doc |-> root, sel |-> s]

changeFont(root, s, command, dis) ==
    LET seeded == changeFontSeed(root, s)
    IN  applyFormat(seeded.doc, seeded.sel, command, dis, dis)

-----------------------------------------------------------------------------
(* TextEditor.tsx: the user's input, the toolbar and the host's renders    *)

\* The character typed in the model: Latin a.
TypedChars == {97}

\* The text pasted in the model: Arabic alef.
PasteTexts == { <<1575>> }

ToggleTags == {"strong", "em", "u", "s"}

\* The delegated commands the model's toolbar issues.
ToolbarCommands == {"justifyCenter", "insertUnorderedList"}

\* The URL typed into the forms: "h".
LinkUrls == { <<104>> }

\* URLs with a character that ends a quoted attribute value: h"x.
QuotedUrls == { <<104, 34, 120>> }

LinkTexts == { <<97>> }

StrongOpen == OpenTok(Element("strong", <<>>))

\* The values a host passes: "", an Arabic letter and "<strong>a</strong>".
HostValues ==
    { <<>>, <<CharTok(1575)>>, <<StrongOpen, CharTok(97), CloseTok("strong")>> }

\* The keys of allowedFormats (all true by default).
AllFormats ==
    {"bold", "italic", "underline", "strikethrough", "alignment", "lists", "links",
     "images", "codeBlocks", "quotes", "colors", "fontSize", "headings"}

\* The allowedFormats a host passes in the model: one group of controls each.
FormatConfigs ==
    { {"bold", "italic", "underline", "strikethrough"},
      {"links"},
      {"images"},
      {"codeBlocks", "quotes"},
      {"alignment", "lists", "fontSize"} }

FormClosed ==
    [showLinkDropdown |-> FALSE, linkUrl |-> <<>>, linkText |-> <<>>,
     showImageDropdown |-> FALSE, imageUrl |-> <<>>, imageAlt |-> <<>>]

\* What the last step did to the document: a user's input or command that
\* changed it ("userChange"), a render of the host that wrote its value into
\* it ("hostWrite") or left it alone ("hostKeep"), or none of these ("none").
\* A command that returned before touching anything leaves "ignored" (Apply).
\* A key press the keydown listener left to its default leaves "keyDefault".
\* Escape, Cancel or a pointer press that closed a form leaves "cancel".
\* A command in which a DOM call threw leaves "caught" when the command's own
\* catch handled it and "escaped" when the exception left the handler.
EditorStep(op, changed) ==
    CASE op \in {"input", "command"} /\ changed -> "userChange"
      [] op = "host" /\ changed -> "hostWrite"
      [] op = "host" /\ ~changed -> "hostKeep"
      [] op \in {"caught", "escaped", "keyDefault", "cancel"} -> op
      [] OTHER -> "none"

\* onBlur when the surface loses the focus it had.
BlurEmpty(root, nowFocused) ==
    IF focused /\ ~nowFocused THEN TrimIsEmpty(TextContent(root.kids)) ELSE editorIsEmpty

\* The state a handler leaves behind; nowFocused is whether the surface has
\* the focus when it returns.
ApplyWithin(r, nowFocused, op, limit) ==
    /\ CountNodes(r.doc.kids) <= limit
    /\ doc' = r.doc
    /\ sel' = r.sel
    /\ focused' = nowFocused
    /\ IF r.notify
       THEN LET h == handleChange(r.doc)
            IN  /\ emitted' = h.emitted
                /\ textDirection' = h.textDirection
                /\ editorIsEmpty' = h.editorIsEmpty
       ELSE /\ UNCHANGED <<emitted, textDirection>>
            /\ editorIsEmpty' = BlurEmpty(r.doc, nowFocused)
    /\ formattingState' =
           IF r.fmt THEN updateFormattingState(r.doc, r.sel, formattingState)
           ELSE formattingState
    /\ edLast' = IF op = "command" /\ ~r.notify THEN "ignored"
                  ELSE EditorStep(op, r.doc # doc)
    /\ handlerCalls' = IF "calls" \in DOMAIN r THEN r.calls ELSE <<>>
    /\ UNCHANGED <<value, disabled, allowedFormats, disabledAtMount, urlProps>>
    /\ UNCHANGED gridVars

\* A handler's step on a document of at most MaxNodes nodes.
Apply(r, nowFocused, op) == ApplyWithin(r, nowFocused, op, MaxNodes)

\* Where the focus is after a click on a toolbar control whose handler did or
\* did not call focus(): the control may take the focus from the surface.
AfterClick(r) ==
    IF r.focus /\ ~disabled THEN {TRUE} ELSE {focused, FALSE}

\* The user puts the selection into the surface (pointer or keys); an editable
\* surface takes the focus, and the selectionchange listener runs.
UserSelect(s) ==
    /\ s \in UserRanges(doc)
    /\ s # sel
    /\ sel' = s
    /\ focused' = (focused \/ ~disabled)
    /\ editorIsEmpty' = IF ~focused /\ ~disabled THEN FALSE ELSE editorIsEmpty
    /\ formattingState' = updateFormattingState(doc, s, formattingState)
    /\ edLast' = EditorStep("ui", FALSE)
    /\ UNCHANGED <<doc, value, emitted, textDirection, disabled, allowedFormats, disabledAtMount, form>>
    /\ UNCHANGED <<gridVars, urlProps, handlerCalls>>

\* The user moves the selection out of the surface; the surface blurs.
UserSelectOutside ==
    /\ sel # OutsideSelection
    /\ sel' = OutsideSelection
    /\ focused' = FALSE
    /\ editorIsEmpty' = BlurEmpty(doc, FALSE)
    /\ edLast' = EditorStep("ui", FALSE)
    /\ UNCHANGED <<doc, value, emitted, textDirection, disabled, allowedFormats, disabledAtMount,
                   formattingState, form>>
    /\ UNCHANGED <<gridVars, urlProps, handlerCalls>>

\* The browser's insertion of text at the selection of the focused surface.
InsertText(root, s, text) ==
    LET ex == extractContents(root, s)
        c == NodeAt(ex.doc, s.path)
    IN  IF c.tag = "#text"
        THEN [doc |-> SetNode(ex.doc, s.path,
                          [c EXCEPT !.data = SubSeq(@, 1, s.so) \o text
                                                \o SubSeq(@, s.so + 1, Len(@))]),
              sel |-> Caret(s.path, s.so + Len(text))]
        ELSE LET r == insertNode(ex.doc, s.path, s.so, TextNode(text))
             IN  [doc |-> r.doc, sel |-> Caret(r.at, Len(text))]

CanEdit == ~disabled /\ focused /\ sel.kind = "in"

\* The user types a character: the browser edits, then onInput = handleChange.
Type(c) ==
    /\ CanEdit
    /\ Len(TextContent(doc.kids)) < MaxText
    /\ LET r == InsertText(doc, sel, <<c>>)
       IN  Apply(Done(r.doc, r.sel, TRUE, TRUE, FALSE), TRUE, "input")
    /\ UNCHANGED form

\* handlePaste: preventDefault, execCommand("insertText", text); the edit fires
\* the input event, so onInput = handleChange follows it.
Paste(text) ==
    /\ Len(TextContent(doc.kids)) < MaxText
    /\ IF CanEdit
       THEN LET r == InsertText(doc, sel, text)
            IN  Apply(Done(r.doc, r.sel, TRUE, TRUE, FALSE), focused, "input")
       ELSE Apply(Done(doc, sel, FALSE, FALSE, FALSE), focused, "input")
    /\ UNCHANGED form

\* The allowedFormats key of a toggle's button.
ToolbarFormat(tag) ==
    CASE tag = "strong" -> "bold" [] tag = "em" -> "italic"
      [] tag = "u" -> "underline" [] OTHER -> "strikethrough"

\* onClick of the bold / italic / underline / strikethrough button.
ToggleClickWithin(tag, limit) ==
    /\ ~disabled
    /\ ToolbarFormat(tag) \in allowedFormats
    /\ LET r == wrapSelectionWithTag(doc, sel, tag)
       IN  \E f \in AfterClick(r) : ApplyWithin(r, f, "command", limit)
    /\ UNCHANGED form

ToggleClick(tag) == ToggleClickWithin(tag, MaxNodes)

\* The keys pressed in the model (e.key.toLowerCase()).
Keys == {"b", "i", "u", "z", "y", "a"}

\* handleKeyDown without the test of document.activeElement.
handleKeyDown_AnyFocus(key, modifier, active) ==
    IF modifier
    THEN CASE key = "b" -> "strong" [] key = "i" -> "em" [] key = "u" -> "u"
           [] key = "z" -> "undo" [] key = "y" -> "redo" [] OTHER -> "none"
    ELSE "none"

\* handleKeyDown(e) with modifier = e.ctrlKey || e.metaKey and active =
\* (document.activeElement === editorRef.current): the command the listener
\* runs, after e.preventDefault(); "none" when it returns without either.
handleKeyDown(key, modifier, active) ==
    IF modifier /\ active
    THEN CASE key = "b" -> "strong" [] key = "i" -> "em" [] key = "u" -> "u"
           [] key = "z" -> "undo" [] key = "y" -> "redo" [] OTHER -> "none"
    ELSE "none"

\* handleKeyDown: Ctrl/Cmd + b, i, u with the surface as the active element.
ToggleKey(tag) ==
    /\ \E key \in Keys : handleKeyDown(key, TRUE, focused) = tag
    /\ Apply(wrapSelectionWithTag(doc, sel, tag), TRUE, "command")
    /\ UNCHANGED form

\* onClick of the quote button.
BlockquoteClick ==
    /\ ~disabled
    /\ "quotes" \in allowedFormats
    /\ LET r == insertBlockquote(doc, sel)
       IN  \E f \in AfterClick(r) : Apply(r, f, "command")
    /\ UNCHANGED form

\* onClick of the code button.
CodeBlockClick ==
    /\ ~disabled
    /\ "codeBlocks" \in allowedFormats
    /\ LET r == insertCodeBlock(doc, sel)
       IN  \E f \in AfterClick(r) : Apply(r, f, "command")
    /\ UNCHANGED form

\* onClick of an alignment or list button: applyFormat of the current render.
FormatClick(command) ==
    /\ ~disabled
    /\ (IF IsList(command) THEN "lists" ELSE "alignment") \in allowedFormats
    /\ \E s \in focus(sel, disabled) :
         \E r \in applyFormat(doc, s, command, disabled, disabled) :
             \E f \in AfterClick(r) : Apply(r, f, "command")
    /\ UNCHANGED form

\* onChange of the font size select.
FontSizeChange ==
    /\ ~disabled
    /\ "fontSize" \in allowedFormats
    /\ \E s \in focus(sel, disabled) :
         \E r \in changeFont(doc, s, "fontSize", disabled) :
             \E f \in AfterClick(r) : Apply(r, f, "command")
    /\ UNCHANGED form

\* undo / redo: useCallback(() => applyFormat(...), []) keeps the applyFormat of
\* the first render.  Reached by the toolbar buttons and by Ctrl/Cmd + z, y.
UndoRedo(command, byKey) ==
    /\ IF byKey THEN \E key \in Keys : handleKeyDown(key, TRUE, focused) = command
                ELSE ~disabled
    /\ \E s \in (IF disabledAtMount THEN {sel} ELSE focus(sel, disabled)) :
         \E r \in applyFormat(doc, s, command, disabledAtMount, disabled) :
             \E f \in (IF byKey THEN {focused} ELSE AfterClick(r)) : Apply(r, f, "command")
    /\ UNCHANGED form

\* A key press on which handleKeyDown runs no command: the key keeps its
\* default, and nothing of the editor changes.
KeyIgnored(key, modifier) ==
    /\ handleKeyDown(key, modifier, focused) = "none"
    /\ edLast' = EditorStep("keyDefault", FALSE)
    /\ UNCHANGED <<doc, sel, value, emitted, textDirection, editorIsEmpty, disabled,
                   allowedFormats, disabledAtMount, formattingState, focused, form>>
    /\ UNCHANGED <<gridVars, urlProps, handlerCalls>>

\* What a throwing range operation can leave behind: it throws before it
\* changed anything, or (range not collapsed) after the selected content was
\* taken out of the tree.
ThrowPoints(root, s) ==
    { [doc |-> root, sel |-> s] } \cup
    ( IF s.so # s.eo
      THEN { [doc |-> extractContents(root, s).doc, sel |-> Caret(s.path, s.so)] }
      ELSE {} )

\* A toggle button is clicked and range.extractContents or range.insertNode
\* throws in the wrap branch of wrapSelectionWithTag: there is no try around
\* them, handleChange and updateFormattingState are not reached.
ToggleThrows(tag) ==
    /\ ~disabled
    /\ ToolbarFormat(tag) \in allowedFormats
    /\ sel.kind = "in"
    /\ ParentTag(doc, sel) # tag
    /\ \E x \in ThrowPoints(doc, sel) :
         LET r == Done(x.doc, x.sel, FALSE, FALSE, FALSE)
         IN  \E f \in AfterClick(r) : Apply(r, f, "escaped")
    /\ UNCHANGED form

\* The same in insertBlockquote and insertCodeBlock, which have no try either.
BlockThrows(key) ==
    /\ ~disabled
    /\ key \in allowedFormats
    /\ sel.kind = "in"
    /\ \E x \in ThrowPoints(doc, sel) :
         LET r == Done(x.doc, x.sel, FALSE, FALSE, FALSE)
         IN  \E f \in AfterClick(r) : Apply(r, f, "escaped")
    /\ UNCHANGED form

\* document.execCommand throws in applyFormat (after the seed was written into
\* an empty surface): no try, handleChange is not reached.
FormatThrows(command) ==
    /\ ~disabled
    /\ (IF IsList(command) THEN "lists" ELSE "alignment") \in allowedFormats
    /\ LET seeded ==
             IF IsJustify(command) /\ MarkupIsBlank(doc)
             THEN [doc |-> Surface(<<Element("div", <<Element("br", <<>>)>>)>>),
                   sel |-> Caret(<<1>>, 0)]
             ELSE IF IsList(command) /\ MarkupIsBlank(doc)
             THEN [doc |-> Surface(<<Element("div", <<TextNode(ListItemText)>>)>>),
                   sel |-> InRange(<<1>>, 0, 1)]
             ELSE [doc |-> doc, sel |-> sel]
       IN  \E s \in focus(seeded.sel, disabled) :
             LET r == Done(seeded.doc, s, FALSE, FALSE, TRUE)
             IN  \E f \in AfterClick(r) : Apply(r, f, "escaped")
    /\ UNCHANGED form

\* range.deleteContents or range.insertNode throws in insertLink: the catch
\* appends the link with insertAdjacentHTML('beforeend'), then the form is
\* reset and handleChange runs.
InsertLinkThrows ==
    /\ form.showLinkDropdown
    /\ form.linkUrl # <<>> /\ form.linkText # <<>>
    /\ \E s \in focus(sel, disabled) :
         /\ s.kind = "in"
         /\ \E x \in ThrowPoints(doc, s) :
              LET e == LinkElement(ProcessedUrl(linkUrlHandler, form.linkUrl), form.linkText)
                  r == Done(appendChild(x.doc, e).doc, x.sel, TRUE, FALSE, TRUE)
                         @@ ("calls" :> CallsFor(linkUrlHandler, "linkUrlHandler", form.linkUrl))
              IN  \E f \in AfterClick(r) : Apply(r, f, "caught")
    /\ form' = [form EXCEPT !.showLinkDropdown = FALSE, !.linkUrl = <<>>, !.linkText = <<>>]

\* The same in insertImage.
InsertImageThrows ==
    /\ form.showImageDropdown
    /\ form.imageUrl # <<>>
    /\ \E s \in focus(sel, disabled) :
         /\ s.kind = "in"
         /\ \E x \in ThrowPoints(doc, s) :
              LET e == ImageElement(ProcessedUrl(imageUrlHandler, form.imageUrl), form.imageAlt)
                  r == Done(appendChild(x.doc, e).doc, x.sel, TRUE, FALSE, TRUE)
                         @@ ("calls" :> CallsFor(imageUrlHandler, "imageUrlHandler", form.imageUrl))
              IN  \E f \in AfterClick(r) : Apply(r, f, "caught")
    /\ form' = [form EXCEPT !.showImageDropdown = FALSE, !.imageUrl = <<>>, !.imageAlt = <<>>]

\* Enter in an input of the link or image form while a required field is
\* empty: insertLink / insertImage return at their first test.
InsertRejected ==
    /\ \/ form.showLinkDropdown /\ (form.linkUrl = <<>> \/ form.linkText = <<>>)
       \/ form.showImageDropdown /\ form.imageUrl = <<>>
    /\ Apply(Done(doc, sel, FALSE, FALSE, FALSE), focused, "command")
    /\ UNCHANGED form

\* A control outside the surface is activated or typed into: the focus may
\* leave the surface, and the selection may leave it with the focus.
LeaveSurface(selMayMove) ==
    /\ focused' \in {focused, FALSE}
    /\ editorIsEmpty' = BlurEmpty(doc, focused')
    /\ sel' \in (IF selMayMove THEN {sel, OutsideSelection} ELSE {sel})

FormStep(op) ==
    /\ edLast' = EditorStep(op, FALSE)
    /\ UNCHANGED <<doc, value, emitted, textDirection, disabled, allowedFormats, disabledAtMount,
                   formattingState>>
    /\ UNCHANGED <<gridVars, urlProps, handlerCalls>>

\* createLink: onClick of the link button.
CreateLink ==
    /\ ~disabled
    /\ "links" \in allowedFormats
    /\ Len(SelectedText(doc, sel)) <= MaxText
    /\ form' = [form EXCEPT !.showLinkDropdown = TRUE,
                            !.linkText = IF SelectedText(doc, sel) # <<>>
                                         THEN SelectedText(doc, sel) ELSE @]
    /\ LeaveSurface(FALSE)
    /\ FormStep("ui")

\* onChange of the URL input of the link form.
SetLinkUrl(u) ==
    /\ form.showLinkDropdown
    /\ form.linkUrl # u
    /\ form' = [form EXCEPT !.linkUrl = u]
    /\ LeaveSurface(TRUE)
    /\ FormStep("ui")

\* onChange of the text input of the link form.
SetLinkText(t) ==
    /\ form.showLinkDropdown
    /\ form.linkText # t
    /\ form' = [form EXCEPT !.linkText = t]
    /\ LeaveSurface(TRUE)
    /\ FormStep("ui")

\* Cancel in the link form keeping what was typed.
CancelLink_KeepText ==
    /\ form.showLinkDropdown
    /\ form' = [form EXCEPT !.showLinkDropdown = FALSE]
    /\ LeaveSurface(TRUE)
    /\ FormStep("cancel")

\* Cancel button or Escape in the link form.
CancelLink ==
    /\ form.showLinkDropdown
    /\ form' = [form EXCEPT !.showLinkDropdown = FALSE, !.linkUrl = <<>>, !.linkText = <<>>]
    /\ LeaveSurface(TRUE)
    /\ FormStep("cancel")

\* insertLink: Insert button or Enter in the link form.
InsertLinkClick ==
    /\ form.showLinkDropdown
    /\ form.linkUrl # <<>> /\ form.linkText # <<>>
    /\ \E s \in focus(sel, disabled) :
         LET r == insertLink(doc, s, form.linkUrl, form.linkText)
         IN  \E f \in AfterClick(r) : Apply(r, f, "command")
    /\ form' = [form EXCEPT !.showLinkDropdown = FALSE, !.linkUrl = <<>>, !.linkText = <<>>]

\* onClick of the image button.
OpenImage ==
    /\ ~disabled
    /\ "images" \in allowedFormats
    /\ form' = [form EXCEPT !.showImageDropdown = TRUE]
    /\ LeaveSurface(FALSE)
    /\ FormStep("ui")

\* onChange of the URL input of the image form.
SetImageUrl(u) ==
    /\ form.showImageDropdown
    /\ form.imageUrl # u
    /\ form' = [form EXCEPT !.imageUrl = u]
    /\ LeaveSurface(TRUE)
    /\ FormStep("ui")

\* onChange of the alt input of the image form.
SetImageAlt(t) ==
    /\ form.showImageDropdown
    /\ form.imageAlt # t
    /\ form' = [form EXCEPT !.imageAlt = t]
    /\ LeaveSurface(TRUE)
    /\ FormStep("ui")

\* Cancel button or Escape in the image form.
CancelImage ==
    /\ form.showImageDropdown
    /\ form' = [form EXCEPT !.showImageDropdown = FALSE, !.imageUrl = <<>>, !.imageAlt = <<>>]
    /\ LeaveSurface(TRUE)
    /\ FormStep("cancel")

\* insertImage: Insert button or Enter in the image form.
InsertImageClick ==
    /\ form.showImageDropdown
    /\ form.imageUrl # <<>>
    /\ \E s \in focus(sel, disabled) :
         LET r == insertImage(doc, s, form.imageUrl, form.imageAlt)
         IN  \E f \in AfterClick(r) : Apply(r, f, "command")
    /\ form' = [form EXCEPT !.showImageDropdown = FALSE, !.imageUrl = <<>>, !.imageAlt = <<>>]

\* handleClickOutside of the forms: a mousedown outside a mounted form closes it.
FormMouseDown(target) ==
    /\ form.showLinkDropdown \/ form.showImageDropdown
    /\ form' = [form EXCEPT
           !.showLinkDropdown = IF target # "link" THEN FALSE ELSE @,
           !.linkUrl = IF form.showLinkDropdown /\ target # "link" THEN <<>> ELSE @,
           !.linkText = IF form.showLinkDropdown /\ target # "link" THEN <<>> ELSE @,
           !.showImageDropdown = IF target # "image" THEN FALSE ELSE @,
           !.imageUrl = IF form.showImageDropdown /\ target # "image" THEN <<>> ELSE @,
           !.imageAlt = IF form.showImageDropdown /\ target # "image" THEN <<>> ELSE @]
    /\ UNCHANGED <<sel, focused, editorIsEmpty>>
    /\ FormStep(IF form'.showLinkDropdown = form.showLinkDropdown
                   /\ form'.showImageDropdown = form.showImageDropdown
                THEN "ui" ELSE "cancel")

\* The host renders with prop value = v; useEffect([value]) runs when v is not
\* the value of the render before, and writes v into the surface if it differs
\* from its markup.  Replacing the children collapses a range inside them.
HostRender(v) ==
    /\ value' = v
    /\ IF v # value /\ v # InnerHTML(doc.kids)
       THEN /\ doc' = Surface(ParseHTML(v))
            /\ editorIsEmpty' = TrimIsEmpty(TextContent(doc'.kids))
            /\ sel' = IF sel.kind = "in" THEN Caret(<<>>, 0) ELSE sel
       ELSE UNCHANGED <<doc, editorIsEmpty, sel>>
    /\ edLast' = EditorStep("host", v # value /\ v # InnerHTML(doc.kids))
    /\ UNCHANGED <<emitted, textDirection, disabled, allowedFormats, disabledAtMount, formattingState,
                   focused, form>>
    /\ UNCHANGED <<gridVars, urlProps, handlerCalls>>

\* The host renders with prop disabled flipped; a surface that stops being
\* editable may keep or lose the focus.
HostSetDisabled ==
    /\ disabled' = ~disabled
    /\ focused' \in (IF disabled' THEN {focused, FALSE} ELSE {focused})
    /\ editorIsEmpty' = BlurEmpty(doc, focused')
    /\ edLast' = EditorStep("host", FALSE)
    /\ UNCHANGED <<doc, sel, value, emitted, textDirection, allowedFormats, disabledAtMount,
                   formattingState, form>>
    /\ UNCHANGED <<gridVars, urlProps, handlerCalls>>

-----------------------------------------------------------------------------
(* Specifications                                                          *)

\* The editor as mounted and never touched (while the grid is explored).
EditorQuiet ==
    /\ doc = Surface(<<>>)
    /\ sel = NoSelection
    /\ value = <<>>
    /\ emitted = NothingEmitted
    /\ textDirection = "ltr"
    /\ editorIsEmpty = TRUE
    /\ disabled = FALSE
    /\ allowedFormats = AllFormats
    /\ disabledAtMount = FALSE
    /\ formattingState = NoFormatting
    /\ focused = FALSE
    /\ form = FormClosed
    /\ edLast = "none"
    /\ linkUrlHandler = "none"
    /\ imageUrlHandler = "none"
    /\ handlerCalls = <<>>

\* The grid as mounted without events (while the editor is explored).
GridQuiet ==
    /\ scheduleData = <<>>
    /\ days = defaultDays
    /\ propStartTime = T0700
    /\ propEndTime = T1600
    /\ showActions = TRUE
    /\ dropdownOpenId = NoId
    /\ dropdownRefs = [id \in EventIds |-> NoCol]
    /\ buttonRefs = [id \in EventIds |-> NoCol]
    /\ gridLast = [op |-> "init", col |-> NoCol, id |-> NoId, was |-> NoId]
    /\ handleEdit = TRUE
    /\ handleDelete = TRUE
    /\ editUrl = <<>>
    /\ compact = FALSE

GridInit ==
    /\ scheduleData = <<>>
    /\ days \in DayLists
    /\ \E w \in Windows : propStartTime = w[1] /\ propEndTime = w[2]
    /\ showActions \in BOOLEAN
    /\ dropdownOpenId = NoId
    /\ dropdownRefs = [id \in EventIds |-> NoCol]
    /\ buttonRefs = [id \in EventIds |-> NoCol]
    /\ gridLast = [op |-> "init", col |-> NoCol, id |-> NoId, was |-> NoId]
    /\ \E cfg \in MenuConfigs :
           /\ handleEdit = cfg.handleEdit
           /\ handleDelete = cfg.handleDelete
           /\ editUrl = cfg.editUrl
    /\ compact = FALSE
    /\ EditorQuiet

GridNext ==
    \/ \E e \in MenuEvents : HostAddEvent(e)
    \/ \E i \in 1..MaxEvents : HostRemoveEvent(i)
    \/ \E w \in Windows : HostSetWindow(w)
    \/ \E d \in DayLists : HostSetDays(d)
    \/ HostSetShowActions
    \/ \E t \in PressTargets : MouseDown(t)
    \/ \E c \in Columns, id \in EventIds : ClickTrigger(c, id)
    \/ \E c \in Columns, id \in EventIds : ClickEdit(c, id)
    \/ \E c \in Columns, id \in EventIds : ClickDelete(c, id)
    \/ \E c \in Columns, id \in EventIds : ClickCard(c, id)

\* The action-menu machine of the grid over a small pool of events.
GridSpec == GridInit /\ [][GridNext]_vars

LayoutInit ==
    /\ scheduleData = <<>>
    /\ days = defaultDays
    /\ \E w \in Windows : propStartTime = w[1] /\ propEndTime = w[2]
    /\ showActions = TRUE
    /\ dropdownOpenId = NoId
    /\ dropdownRefs = [id \in EventIds |-> NoCol]
    /\ buttonRefs = [id \in EventIds |-> NoCol]
    /\ gridLast = [op |-> "init", col |-> NoCol, id |-> NoId, was |-> NoId]
    /\ handleEdit = TRUE
    /\ handleDelete = TRUE
    /\ editUrl = <<>>
    /\ compact \in BOOLEAN
    /\ EditorQuiet

LayoutNext ==
    \/ \E e \in LayoutEvents : HostAddEvent(e)
    \/ \E i \in 1..MaxEvents : HostRemoveEvent(i)
    \/ \E w \in Windows : HostSetWindow(w)

\* The layout functions of the grid over every pair of time strings.
LayoutSpec == LayoutInit /\ [][LayoutNext]_vars


BucketNext ==
    \/ \E e \in BucketEvents : HostAddEvent(e)
    \/ \E i \in 1..MaxEvents : HostRemoveEvent(i)
    \/ \E d \in DayLists : HostSetDays(d)

\* The day columns of the grid over every day string and day list used.
BucketSpec == LayoutInit /\ [][BucketNext]_vars

------------------------------------------------------------------------

\* The mount: useState initial values, then useEffect([value]) writes a
\* non-empty value into the surface.
EditorInit ==
    /\ value \in HostValues
    /\ doc = Surface(ParseHTML(value))
    /\ sel = NoSelection
    /\ emitted = NothingEmitted
    /\ textDirection = "ltr"
    /\ editorIsEmpty = TrimIsEmpty(TextContent(doc.kids))
    /\ disabled \in BOOLEAN
    /\ allowedFormats \in FormatConfigs
    /\ disabledAtMount = disabled
    /\ formattingState = NoFormatting
    /\ focused = FALSE
    /\ form = FormClosed
    /\ edLast = "none"
    /\ linkUrlHandler = "none"
    /\ imageUrlHandler = "none"
    /\ handlerCalls = <<>>
    /\ GridQuiet

EditorNext ==
    \/ \E s \in UserRanges(doc) : UserSelect(s)
    \/ UserSelectOutside
    \/ \E c \in TypedChars : Type(c)
    \/ \E t \in PasteTexts : Paste(t)
    \/ \E tag \in ToggleTags : ToggleClick(tag)
    \/ \E tag \in ToggleTags : ToggleKey(tag)
    \/ BlockquoteClick
    \/ CodeBlockClick
    \/ \E command \in ToolbarCommands : FormatClick(command)
    \/ FontSizeChange
    \/ \E command \in {"undo", "redo"}, byKey \in BOOLEAN : UndoRedo(command, byKey)
    \/ CreateLink
    \/ \E u \in LinkUrls \cup {<<>>} : SetLinkUrl(u)
    \/ \E t \in LinkTexts \cup {<<>>} : SetLinkText(t)
    \/ CancelLink
    \/ InsertLinkClick
    \/ OpenImage
    \/ \E u \in LinkUrls \cup {<<>>} : SetImageUrl(u)
    \/ CancelImage
    \/ InsertImageClick
    \/ \E target \in {"outside", "link", "image"} : FormMouseDown(target)
    \/ \E v \in HostValues : HostRender(v)
    \/ HostSetDisabled

\* The rich-text editor: the user's input, every toolbar command, the host.
EditorSpec == EditorInit /\ [][EditorNext]_vars

\* The editor in an environment whose DOM calls may throw: the user selects,
\* types and fills the forms, and the commands are taken on their throwing path.
ThrowNext ==
    \/ \E s \in UserRanges(doc) : UserSelect(s)
    \/ UserSelectOutside
    \/ \E c \in TypedChars : Type(c)
    \/ CreateLink
    \/ \E u \in LinkUrls : SetLinkUrl(u)
    \/ \E t \in LinkTexts : SetLinkText(t)
    \/ OpenImage
    \/ \E u \in LinkUrls : SetImageUrl(u)
    \/ \E tag \in ToggleTags : ToggleThrows(tag)
    \/ \E key \in {"quotes", "codeBlocks"} : BlockThrows(key)
    \/ \E command \in ToolbarCommands : FormatThrows(command)
    \/ InsertLinkThrows
    \/ InsertImageThrows

ThrowSpec == EditorInit /\ [][ThrowNext]_vars

\* Most nodes of a document under the toggles alone, and most nodes of a
\* document a toggle is applied to.
DeepNodes == 6

WrapFrom == 3

\* Values with the toggles' tags nested: "a", "<strong>a</strong>",
\* "<strong><em>a</em></strong>" and "<em><strong>a</strong></em>".
WrapValues ==
    { <<CharTok(97)>>,
      <<StrongOpen, CharTok(97), CloseTok("strong")>>,
      <<StrongOpen, OpenTok(Element("em", <<>>)), CharTok(97), CloseTok("em"),
        CloseTok("strong")>>,
      <<OpenTok(Element("em", <<>>)), StrongOpen, CharTok(97), CloseTok("strong"),
        CloseTok("em")>> }

\* The mount of an enabled editor with the four toggles on such a value.
WrapInit ==
    /\ value \in WrapValues
    /\ doc = Surface(ParseHTML(value))
    /\ sel = NoSelection
    /\ emitted = NothingEmitted
    /\ textDirection = "ltr"
    /\ editorIsEmpty = TrimIsEmpty(TextContent(doc.kids))
    /\ disabled = FALSE
    /\ allowedFormats = {"bold", "italic", "underline", "strikethrough"}
    /\ disabledAtMount = disabled
    /\ formattingState = NoFormatting
    /\ focused = FALSE
    /\ form = FormClosed
    /\ edLast = "none"
    /\ linkUrlHandler = "none"
    /\ imageUrlHandler = "none"
    /\ handlerCalls = <<>>
    /\ GridQuiet

WrapNext ==
    \/ \E s \in UserRanges(doc) : UserSelect(s)
    \/ UserSelectOutside
    \/ \E tag \in {"strong", "em"} :
           CountNodes(doc.kids) <= WrapFrom /\ ToggleClickWithin(tag, DeepNodes)

\* The toggles on nested markup.
WrapSpec == WrapInit /\ [][WrapNext]_vars

\* The editor under the keyboard: the user selects, types, opens and fills the
\* link form (which may take the focus from the surface) and presses keys.
KeyNext ==
    \/ \E s \in UserRanges(doc) : UserSelect(s)
    \/ UserSelectOutside
    \/ \E c \in TypedChars : Type(c)
    \/ CreateLink
    \/ \E t \in LinkTexts : SetLinkText(t)
    \/ \E tag \in ToggleTags : ToggleKey(tag)
    \/ \E command \in {"undo", "redo"} : UndoRedo(command, TRUE)
    \/ \E key \in Keys, modifier \in BOOLEAN : KeyIgnored(key, modifier)

KeySpec == EditorInit /\ [][KeyNext]_vars

\* The mount of an editor with the link and image controls, with or without
\* URL handlers.
InsertInit ==
    /\ value \in HostValues
    /\ doc = Surface(ParseHTML(value))
    /\ sel = NoSelection
    /\ emitted = NothingEmitted
    /\ textDirection = "ltr"
    /\ editorIsEmpty = TrimIsEmpty(TextContent(doc.kids))
    /\ disabled = FALSE
    /\ allowedFormats = {"links", "images"}
    /\ disabledAtMount = disabled
    /\ formattingState = NoFormatting
    /\ focused = FALSE
    /\ form = FormClosed
    /\ edLast = "none"
    /\ linkUrlHandler \in {"none", "proxy"}
    /\ imageUrlHandler = linkUrlHandler
    /\ handlerCalls = <<>>
    /\ GridQuiet

InsertNext ==
    \/ \E s \in UserRanges(doc) : UserSelect(s)
    \/ UserSelectOutside
    \/ CreateLink
    \/ \E u \in LinkUrls \cup QuotedUrls \cup {<<>>} : SetLinkUrl(u)
    \/ \E t \in LinkTexts : SetLinkText(t)
    \/ InsertLinkClick
    \/ InsertLinkThrows
    \/ OpenImage
    \/ \E u \in LinkUrls \cup QuotedUrls \cup {<<>>} : SetImageUrl(u)
    \/ InsertImageClick
    \/ InsertImageThrows
    \/ InsertRejected

\* Link and image insertion on every path, with the URLs and handlers above.
InsertSpec == InsertInit /\ [][InsertNext]_vars

\* The mount of an editor with the link and image controls and no URL handler.
FormInit == InsertInit /\ linkUrlHandler = "none"

\* The link and image forms: opened (by pointer or by keyboard), filled,
\* cancelled, submitted, and closed by a pointer press outside them.
FormNext ==
    \/ \E s \in UserRanges(doc) : UserSelect(s)
    \/ UserSelectOutside
    \/ CreateLink
    \/ \E u \in LinkUrls \cup {<<>>} : SetLinkUrl(u)
    \/ \E t \in LinkTexts \cup {<<>>} : SetLinkText(t)
    \/ CancelLink
    \/ InsertLinkClick
    \/ OpenImage
    \/ \E u \in LinkUrls \cup {<<>>} : SetImageUrl(u)
    \/ \E t \in LinkTexts \cup {<<>>} : SetImageAlt(t)
    \/ CancelImage
    \/ InsertImageClick
    \/ \E target \in {"outside", "link", "image"} : FormMouseDown(target)

FormSpec == FormInit /\ [][FormNext]_vars


-----
(* Claims about the schedule grid                                          *)

\* The three-way interval test of the specification on minutes since midnight.
MinuteOverlap(E, O) ==
    LET Es == ClockMinutes(E.startTime)
        Ee == ClockMinutes(E.endTime)
        Os == ClockMinutes(O.startTime)
        Oe == ClockMinutes(O.endTime)
    IN  \/ (Os >= Es /\ Os < Ee)
        \/ (Oe > Es /\ Oe <= Ee)
        \/ (Os <= Es /\ Oe >= Ee)

InWindowByClock(ev) ==
    /\ ClockMinutes(propStartTime) <= ClockMinutes(ev.startTime)
    /\ ClockMinutes(ev.startTime) <= ClockMinutes(propEndTime)
    /\ ClockMinutes(propStartTime) <= ClockMinutes(ev.endTime)
    /\ ClockMinutes(ev.endTime) <= ClockMinutes(propEndTime)

WellFormed(ev) == ClockMinutes(ev.startTime) < ClockMinutes(ev.endTime)

\* C2: the overlap list computed for every rendered event E of a column is
\* exactly the set of the other rendered events of that column whose intervals,
\* in minutes since midnight (seconds ignored), pass the three-way test with E
\* (stated on events whose start precedes their end on the clock).
C2_OverlapSetIsMinuteOverlap ==
    \A c \in Columns :
        \A E \in { X \in Range(RenderedEvents(c)) : WellFormed(X) } :
            { id \in IdsOf(overlappingEvents(c, E)) :
                  \E X \in Range(RenderedEvents(c)) : X.id = id /\ WellFormed(X) }
              = { O.id : O \in { X \in Range(RenderedEvents(c)) :
                                   X.id # E.id /\ WellFormed(X) /\ MinuteOverlap(E, X) } }

\* C3: overlap is symmetric between any two rendered events of a column (stated
\* on events whose start precedes their end on the clock).
C3_OverlapSymmetric ==
    \A c \in Columns :
        \A A \in Range(RenderedEvents(c)), B \in Range(RenderedEvents(c)) :
            (WellFormed(A) /\ WellFormed(B)) =>
                (B.id \in IdsOf(overlappingEvents(c, A))
                    <=> A.id \in IdsOf(overlappingEvents(c, B)))

\* C4: an event bucketed into a column is rendered there if and only if both its
\* start and its end, in minutes since midnight, lie in [windowStart, windowEnd];
\* it is rendered whole or not at all.
C4_RenderedIffInWindow ==
    \A c \in Columns :
        \A ev \in Range(DayEvents(c)) :
            (ev \in Range(RenderedEvents(c))) <=> InWindowByClock(ev)

\* C4 witness: one event spans exactly the window and is rendered, another ends
\* one minute past the window's end and is dropped.
C4_Witness ==
    \E c \in Columns :
        /\ \E ev \in Range(RenderedEvents(c)) :
               ev.startTime = propStartTime /\ ev.endTime = propEndTime
        /\ \E ev \in Range(DayEvents(c)) :
               /\ ClockMinutes(ev.endTime) = ClockMinutes(propEndTime) + 1
               /\ ClockMinutes(ev.startTime) >= ClockMinutes(propStartTime)
               /\ ev \notin Range(RenderedEvents(c))

\* C5: at most one action menu is on screen in the whole grid; activating the
\* trigger of B while A's menu is open leaves B's menu as the only one, and
\* activating the trigger of the open menu's event closes it.
C5_AtMostOneMenuDisplayed ==
    /\ Cardinality(DisplayedMenus) <= 1
    /\ (gridLast.op = "toggle" /\ gridLast.was # gridLast.id) =>
           (DisplayedMenus # {} /\ \A m \in DisplayedMenus : m[2] = gridLast.id)
    /\ (gridLast.op = "toggle" /\ gridLast.was = gridLast.id) => DisplayedMenus = {}

\* C6: whenever the open-menu flag is set, a pointer press outside the menu and
\* its trigger leaves no menu open (the flag cleared), whatever the host changed
\* while the menu was open.
C6_OutsidePressCloses ==
    (/\ gridLast.op = "mousedown"
     /\ gridLast.was # NoId
     /\ ~gridLast.inMenu
     /\ ~gridLast.onTrigger) => dropdownOpenId = NoId

-----------------------------------------------------------------------------
(* Claims about the rich-text editor                                       *)

\* The element at path q has the format tag and no element around it has.
OnlyFormatElement(root, q, tag) ==
    /\ NodeAt(root, q).tag = tag
    /\ \A i \in 1..(Len(q) - 1) : NodeAt(root, SubSeq(q, 1, i)).tag # tag

\* The selection holds all the text of a span of the format: an element of the
\* tag whose only child is a non-empty Text node, inside no other element of
\* the tag; the range runs over the whole Text node or over the element's content.
FullySelectedSpan(root, s, tag) ==
    /\ s.kind = "in"
    /\ LET c == NodeAt(root, s.path)
       IN  \/ /\ c.tag = "#text" /\ c.data # <<>>
              /\ s.so = 0 /\ s.eo = Len(c.data)
              /\ Len(s.path) >= 2
              /\ OnlyFormatElement(root, Front(s.path), tag)
              /\ Len(NodeAt(root, Front(s.path)).kids) = 1
           \/ /\ c.tag = tag /\ Len(c.kids) = 1
              /\ c.kids[1].tag = "#text" /\ c.kids[1].data # <<>>
              /\ s.so = 0 /\ s.eo = 1
              /\ OnlyFormatElement(root, s.path, tag)

\* C1: from a document whose selected text is fully selected and wrapped in
\* exactly one element of a format, the same toggle applied twice in succession
\* leaves the serialized document as it was before the first.
C1_ToggleTwiceRestores ==
    \A tag \in ToggleTags :
        FullySelectedSpan(doc, sel, tag) =>
            LET first == wrapSelectionWithTag(doc, sel, tag)
                second == wrapSelectionWithTag(first.doc, first.sel, tag)
            IN  InnerHTML(second.doc.kids) = InnerHTML(doc.kids)

DirectionOf(text) == IF arabicRegex(text) THEN "rtl" ELSE "ltr"

\* C7: after every content change (the user's input or command, or the host
\* writing a different value) the direction is rtl if the plain text holds a
\* character of U+0600..U+06FF or U+0750..U+077F, and ltr otherwise.
C7_DirectionFollowsText ==
    edLast \in {"userChange", "hostWrite"} =>
        textDirection = DirectionOf(TextContent(doc.kids))

C9_HostValueAuthoritative ==
    edLast \in {"hostWrite", "hostKeep"} => InnerHTML(doc.kids) = value

\* The number of markup tokens of InnerHTML(n.kids) (of characters, for a Text
\* node n) that precede the boundary point (p, o) below n.
RECURSIVE MarkupOffset(_, _, _)
MarkupOffset(n, p, o) ==
    IF p = <<>>
    THEN IF n.tag = "#text" THEN o ELSE Len(InnerHTML(SubSeq(n.kids, 1, o)))
    ELSE LET k == n.kids[Head(p)]
         IN  Len(InnerHTML(SubSeq(n.kids, 1, Head(p) - 1)))
                 + (IF k.tag = "#text" THEN 0 ELSE 1)
                 + MarkupOffset(k, Tail(p), o)

\* The markup between the boundary points of the range s.
SelectedMarkup(root, s) ==
    SubSeq(InnerHTML(root.kids), MarkupOffset(root, s.path, s.so) + 1,
           MarkupOffset(root, s.path, s.eo))

\* The markup of after is that of root with the range s replaced by new (put
\* in at the caret when s is collapsed).
PlacedAtSelection(root, s, after, new) ==
    LET html == InnerHTML(root.kids)
    IN  InnerHTML(after.kids) =
            SubSeq(html, 1, MarkupOffset(root, s.path, s.so)) \o new
                \o SubSeq(html, MarkupOffset(root, s.path, s.eo) + 1, Len(html))

\* after is root with one more child, a new structure, as its last child.
AppendedLast(root, after) ==
    /\ Len(after.kids) = Len(root.kids) + 1
    /\ SubSeq(after.kids, 1, Len(root.kids)) = root.kids
    /\ Last(after.kids).tag \in {"a", "img", "blockquote", "pre"}

WrapMarkup(tag, inner) == <<OpenTok(Element(tag, <<>>))>> \o inner \o <<CloseTok(tag)>>

QuoteMarkup == [i \in 1..Len(QuoteText) |-> CharTok(QuoteText[i])]

\* The structures each insertion builds for the selection s it reads, as markup.
LinkMarkup(u, t) == InnerHTML(<<LinkElement(u, t)>>)

ImageMarkup(u) == InnerHTML(<<ImageElement(u, <<>>)>>)

QuoteMarkupFor(root, s) ==
    WrapMarkup("blockquote",
               IF s.kind = "in" /\ s.so # s.eo THEN SelectedMarkup(root, s) ELSE QuoteMarkup)

CodeMarkupFor(root, s) ==
    WrapMarkup("pre", WrapMarkup("code",
               IF s.kind = "in" THEN SelectedMarkup(root, s)
               ELSE <<OpenTok(Element("br", <<>>))>>))

\* C10 as amended: a structured insertion puts the new subtree where the
\* selection its handler reads is (for link and image, read after the surface
\* was focused): in place of the selected content when the range is not
\* collapsed, at the caret when it is collapsed, and as the last child when
\* there is no selection; with a selection outside the surface link and image
\* are appended as the last child, blockquote and code block change nothing.
C10_InsertedAtSelection ==
    /\ \A s \in focus(sel, disabled), u \in LinkUrls, t \in LinkTexts :
           LET after == insertLink(doc, s, u, t).doc
           IN  IF s.kind = "in" THEN PlacedAtSelection(doc, s, after, LinkMarkup(u, t))
               ELSE AppendedLast(doc, after)
    /\ \A s \in focus(sel, disabled), u \in LinkUrls :
           LET after == insertImage(doc, s, u, <<>>).doc
           IN  IF s.kind = "in" THEN PlacedAtSelection(doc, s, after, ImageMarkup(u))
               ELSE AppendedLast(doc, after)
    /\ LET after == insertBlockquote(doc, sel).doc
       IN  CASE sel.kind = "in" ->
                    PlacedAtSelection(doc, sel, after, QuoteMarkupFor(doc, sel))
             [] sel.kind = "none" ->
                    /\ AppendedLast(doc, after)
                    /\ InnerHTML(<<Last(after.kids)>>) = QuoteMarkupFor(doc, sel)
             [] OTHER -> after = doc
    /\ LET after == insertCodeBlock(doc, sel).doc
       IN  CASE sel.kind = "in" ->
                    PlacedAtSelection(doc, sel, after, CodeMarkupFor(doc, sel))
             [] sel.kind = "none" ->
                    /\ AppendedLast(doc, after)
                    /\ InnerHTML(<<Last(after.kids)>>) = CodeMarkupFor(doc, sel)
             [] OTHER -> after = doc

\* C10 witness: an image was inserted at a caret in front of the text, so the
\* new subtree is the first child and the text follows it.
C10_Witness ==
    /\ edLast = "userChange"
    /\ Len(doc.kids) = 2
    /\ doc.kids[1].tag = "img"
    /\ doc.kids[2].tag = "#text" /\ doc.kids[2].data # <<>>

\* What C10 says of one insertion with selection s: replaced when the range is
\* inside and not collapsed, appended as the last child when it is collapsed
\* or there is no selection.
ReplacedOrAppended(s, after, new) ==
    /\ (s.kind = "in" /\ s.so # s.eo) => PlacedAtSelection(doc, s, after, new)
    /\ ((s.kind = "in" /\ s.so = s.eo) \/ s.kind = "none") => AppendedLast(doc, after)

\* C10 as written: the new subtree replaces the selected content when the
\* selection is non-collapsed and inside the surface, and is appended as the
\* last child when the caret is collapsed or no selection exists (taking the
\* selection as it is when the command is given).
C10_ReplaceOrAppend ==
    /\ \A u \in LinkUrls, t \in LinkTexts :
           ReplacedOrAppended(sel, insertLink(doc, sel, u, t).doc, LinkMarkup(u, t))
    /\ \A u \in LinkUrls :
           ReplacedOrAppended(sel, insertImage(doc, sel, u, <<>>).doc, ImageMarkup(u))
    /\ ReplacedOrAppended(sel, insertBlockquote(doc, sel).doc, QuoteMarkupFor(doc, sel))
    /\ ReplacedOrAppended(sel, insertCodeBlock(doc, sel).doc, CodeMarkupFor(doc, sel))

\* C11: with a selection whose common ancestor lies outside the surface, a
\* toggle-wrap command, the blockquote insertion and the code-block insertion
\* are no-ops: every such step leaves the document, the selection,
\* FormattingState and the last change notification as they were.
C11_OutsideSelectionIgnored ==
    [][ ( /\ sel.kind = "outside"
          /\ \/ \E tag \in ToggleTags : ToggleClick(tag)
             \/ BlockquoteClick
             \/ CodeBlockClick )
        => UNCHANGED <<doc, sel, formattingState, emitted>> ]_vars

\* C11 witness: a command returned without touching anything while the
\* selection was outside a surface that holds content (undo and redo are not
\* the ones that returned: their closure is of an enabled editor).
C11_Witness ==
    /\ edLast = "ignored"
    /\ sel.kind = "outside"
    /\ ~disabledAtMount
    /\ doc.kids # <<>>

\* C12: link and image insertion never lose the insert: with the required
\* fields filled and the selection absent or outside the surface when
\* the form is submitted, the element is appended as the last child, the
\* content that was there is unchanged, and the change is notified.
C12_InsertNeverLost ==
    (sel.kind # "in") =>
        /\ \A s \in focus(sel, disabled), u \in LinkUrls, t \in LinkTexts :
               LET r == insertLink(doc, s, u, t)
               IN  /\ AppendedLast(doc, r.doc)
                   /\ Last(r.doc.kids) = LinkElement(u, t)
                   /\ r.notify
        /\ \A s \in focus(sel, disabled), u \in LinkUrls :
               LET r == insertImage(doc, s, u, <<>>)
               IN  /\ AppendedLast(doc, r.doc)
                   /\ Last(r.doc.kids) = ImageElement(u, <<>>)
                   /\ r.notify

\* C13: when a document mutation inside an editor command throws, the failure
\* is caught inside the command, the command is a no-op for that attempt (the
\* document and the last notification stay as they were) and no error leaves
\* the handler.
C13_ThrowIsCaughtNoOp ==
    [][ (edLast' \in {"caught", "escaped"})
        => (edLast' = "caught" /\ doc' = doc /\ emitted' = emitted) ]_vars

\* C14: whenever an edit URL or an edit callback (or both) is supplied, every
\* open action menu offers Edit, and activating Edit on event e does exactly
\* one thing: it opens editUrl/e.id when an edit URL is configured (the edit
\* callback is then not called), otherwise it calls the edit callback with e.id.
C14_EditDispatch ==
    /\ \A m \in DisplayedMenus :
           (editUrl # <<>> \/ handleEdit) => EditShown(m[1], m[2])
    /\ (gridLast.op = "edit") =>
           gridLast.calls =
               IF editUrl # <<>>
               THEN << [fn |-> "window.open",
                        arg |-> editUrl \o <<"/">> \o NoPad(gridLast.id)] >>
               ELSE << [fn |-> "handleEdit", arg |-> gridLast.id] >>

\* The lower-case letter of a letter, any other character as it is.
FoldCase(c) ==
    IF IndexIn(c, UpperChars) > 0 THEN LowerChars[IndexIn(c, UpperChars)] ELSE c

\* label is a prefix of day when case is ignored.
CaseInsensitivePrefix(label, day) ==
    /\ Len(label) <= Len(day)
    /\ \A i \in 1..Len(label) : FoldCase(label[i]) = FoldCase(day[i])

\* C15: an event is placed in a day column if and only if the column's short
\* label is a case-insensitive prefix of its day string; two events of one
\* column that overlap on the clock are flagged as overlapping each other;
\* an event whose day matches no column is rendered nowhere.
C15_DayBucketing ==
    /\ \A c \in Columns : \A ev \in Range(scheduleData) :
           (ev \in Range(DayEvents(c))) <=> CaseInsensitivePrefix(days[c], ev.day)
    /\ \A c \in Columns : \A A \in Range(RenderedEvents(c)), B \in Range(RenderedEvents(c)) :
           (A.id # B.id /\ MinuteOverlap(A, B) /\ MinuteOverlap(B, A)) =>
               /\ B.id \in IdsOf(overlappingEvents(c, A))
               /\ A.id \in IdsOf(overlappingEvents(c, B))
    /\ \A ev \in Range(scheduleData) :
           (\A c \in Columns : ~CaseInsensitivePrefix(days[c], ev.day)) =>
               \A c \in Columns : ev \notin Range(RenderedEvents(c))

\* The first and the last part of C15 alone: the bucketing without the flags.
C15_BucketingOnly ==
    /\ \A c \in Columns : \A ev \in Range(scheduleData) :
           (ev \in Range(DayEvents(c))) <=> CaseInsensitivePrefix(days[c], ev.day)
    /\ \A ev \in Range(scheduleData) :
           (\A c \in Columns : ~CaseInsensitivePrefix(days[c], ev.day)) =>
               \A c \in Columns : ev \notin Range(RenderedEvents(c))

\* The position and the height of the specification, on clock minutes.
SpecTop(ev) ==
    Frac((ClockMinutes(ev.startTime) - ClockMinutes(propStartTime)) * 100,
         ClockMinutes(propEndTime) - ClockMinutes(propStartTime))

SpecHeight(ev) ==
    Frac((ClockMinutes(ev.endTime) - ClockMinutes(ev.startTime)) * 100,
         ClockMinutes(propEndTime) - ClockMinutes(propStartTime))

\* C16: for every rendered event, top% = (start - windowStart) * 100 /
\* (windowEnd - windowStart) and the rendered height% is the larger of
\* (end - start) * 100 / (windowEnd - windowStart) and the floor, 8 in compact
\* mode and 10 otherwise, all times in minutes since midnight.
C16_PositionMapping ==
    \A c \in Columns : \A ev \in Range(RenderedEvents(c)) :
        /\ FracEq(Top(ev), SpecTop(ev))
        /\ LET floor == Frac(IF compact THEN 8 ELSE 10, 1)
           IN  IF FracLess(SpecHeight(ev), floor)
               THEN FracEq(RenderedHeight(ev), floor)
               ELSE FracEq(RenderedHeight(ev), SpecHeight(ev))

\* C16 witness: in window 07:00-16:00 an event 08:00-09:00 is rendered with
\* top = height = 60*100/540, and in compact mode the 30-minute event
\* 8:30-09:00 is rendered with the floor height 8.
C16_Witness ==
    /\ propStartTime = T0700 /\ propEndTime = T1600
    /\ compact
    /\ \E c \in Columns :
         /\ \E ev \in Range(RenderedEvents(c)) :
              /\ ev.startTime = T0800 /\ ev.endTime = T0900
              /\ FracEq(Top(ev), Frac(6000, 540))
              /\ FracEq(RenderedHeight(ev), Frac(6000, 540))
         /\ \E ev \in Range(RenderedEvents(c)) :
              /\ ClockMinutes(ev.endTime) - ClockMinutes(ev.startTime) = 30
              /\ FracEq(RenderedHeight(ev), Frac(8, 1))

\* C17: for two rendered events A and B of one day column, each with start
\* before end, and A ending no later than B starts, the top of A is strictly
\* less than the top of B.
C17_PositionMonotone ==
    \A c \in Columns : \A A \in Range(RenderedEvents(c)), B \in Range(RenderedEvents(c)) :
        ( /\ WellFormed(A) /\ WellFormed(B)
          /\ ClockMinutes(A.endTime) <= ClockMinutes(B.startTime) )
        => FracLess(Top(A), Top(B))

\* C17 witness: 08:00-09:00 and 09:00:00-16:00 are rendered in one column, the
\* second starting when the first ends.
C17_Witness ==
    \E c \in Columns : \E A \in Range(RenderedEvents(c)), B \in Range(RenderedEvents(c)) :
        /\ WellFormed(A) /\ WellFormed(B)
        /\ ClockMinutes(A.endTime) = ClockMinutes(B.startTime)
        /\ A.endTime # B.startTime
        /\ FracLess(Top(A), Top(B))

\* The links and images of a subtree, in document order.
RECURSIVE Targets(_)
Targets(kids) ==
    IF kids = <<>> THEN <<>>
    ELSE (IF Head(kids).tag \in {"a", "img"} THEN <<Head(kids).url>> ELSE <<>>)
             \o Targets(Head(kids).kids) \o Targets(Tail(kids))

\* C18: every link or image the editor inserts, on every insertion path,
\* embeds exactly transform(url) as its target when the host supplied the
\* transform and exactly the entered url otherwise; the transform is called
\* once per insertion, and not at all when the insertion is rejected for a
\* missing field.
C18_TargetIsTransformedUrl ==
    [][ /\ (InsertLinkClick \/ InsertLinkThrows) =>
             LET want == IF linkUrlHandler # "none"
                         THEN CallHandler(linkUrlHandler, form.linkUrl) ELSE form.linkUrl
             IN  /\ \E i \in 1..Len(Targets(doc'.kids)) :
                        /\ Targets(doc'.kids)[i] = want
                        /\ Len(Targets(doc'.kids)) = Len(Targets(doc.kids)) + 1
                 /\ handlerCalls' = IF linkUrlHandler # "none"
                                    THEN << [fn |-> "linkUrlHandler", arg |-> form.linkUrl] >>
                                    ELSE <<>>
        /\ (InsertImageClick \/ InsertImageThrows) =>
             LET want == IF imageUrlHandler # "none"
                         THEN CallHandler(imageUrlHandler, form.imageUrl) ELSE form.imageUrl
             IN  /\ \E i \in 1..Len(Targets(doc'.kids)) :
                        /\ Targets(doc'.kids)[i] = want
                        /\ Len(Targets(doc'.kids)) = Len(Targets(doc.kids)) + 1
                 /\ handlerCalls' = IF imageUrlHandler # "none"
                                    THEN << [fn |-> "imageUrlHandler", arg |-> form.imageUrl] >>
                                    ELSE <<>>
        /\ InsertRejected => (handlerCalls' = <<>> /\ doc' = doc) ]_vars

\* An image, blockquote or code block somewhere in a subtree.
RECURSIVE HasEmbedded(_)
HasEmbedded(kids) ==
    \E i \in 1..Len(kids) :
        \/ kids[i].tag \in {"img", "blockquote", "pre"}
        \/ HasEmbedded(kids[i].kids)

\* C19: in every reachable state in which the placeholder is displayed
\* (editorIsEmpty), the document has no non-blank text and no embedded
\* element such as an image, a blockquote or a code block.
C19_PlaceholderOnlyWhenEmpty ==
    editorIsEmpty => /\ TrimIsEmpty(TextContent(doc.kids))
                     /\ ~HasEmbedded(doc.kids)

\* A step of the keydown listener: a shortcut it ran, or a key it let pass.
KeyStep ==
    \/ \E tag \in ToggleTags : ToggleKey(tag)
    \/ \E command \in {"undo", "redo"} : UndoRedo(command, TRUE)
    \/ \E key \in Keys, modifier \in BOOLEAN : KeyIgnored(key, modifier)

\* C20: keyboard shortcuts act only while the editable surface itself has the
\* input focus.  A Ctrl/Cmd + B, I, U, Z or Y key press while the focus is
\* elsewhere (the inputs of the link and image forms included) neither changes
\* the document nor suppresses the key's default; while the surface has the
\* focus B / I / U run the bold / italic / underline toggle-wrap and Z / Y run
\* undo / redo.
C20_ShortcutsNeedFocus ==
    [][ /\ \A key \in Keys, modifier \in BOOLEAN :
               handleKeyDown(key, modifier, FALSE) = "none"
        /\ handleKeyDown("b", TRUE, TRUE) = "strong"
        /\ handleKeyDown("i", TRUE, TRUE) = "em"
        /\ handleKeyDown("u", TRUE, TRUE) = "u"
        /\ handleKeyDown("z", TRUE, TRUE) = "undo"
        /\ handleKeyDown("y", TRUE, TRUE) = "redo"
        /\ (KeyStep /\ ~focused) =>
               /\ doc' = doc
               /\ emitted' = emitted
               /\ edLast' = "keyDefault"
        /\ \A tag \in {"strong", "em", "u"} :
               ToggleKey(tag) =>
                   /\ focused
                   /\ doc' = wrapSelectionWithTag(doc, sel, tag).doc
                   /\ edLast' # "keyDefault"
        /\ \A command \in {"undo", "redo"} :
               UndoRedo(command, TRUE) =>
                   /\ focused
                   /\ edLast' # "keyDefault"
                   /\ \E s \in (IF disabledAtMount THEN {sel} ELSE focus(sel, disabled)) :
                          \E r \in applyFormat(doc, s, command, disabledAtMount, disabled) :
                              doc' = r.doc ]_vars

\* A shortcut key was pressed while the focus was in the open link form, with
\* a range selected in a non-empty document, and was left to its default.
C20_Witness ==
    /\ edLast = "keyDefault"
    /\ ~focused
    /\ form.showLinkDropdown
    /\ sel.kind = "in"
    /\ sel.so # sel.eo

\* The elements from the selection's anchor up to, and without, the surface.
AnchorPath(root, s) ==
    IF s.kind = "in"
    THEN { NodeAt(root, SubSeq(s.path, 1, i)) : i \in 1..Len(s.path) }
    ELSE {}

\* A flag is set iff an element of the anchor path carries its tag or its
\* text-align style.
FlagsOfAnchor(root, s) ==
    LET up == AnchorPath(root, s)
    IN  [bold          |-> \E n \in up : n.tag \in {"strong", "b"},
         italic        |-> \E n \in up : n.tag \in {"em", "i"},
         underline     |-> \E n \in up : n.tag = "u",
         strikeThrough |-> \E n \in up : n.tag \in {"s", "strike"},
         alignLeft     |-> \E n \in up : n.align = "left",
         alignCenter   |-> \E n \in up : n.align = "center",
         alignRight    |-> \E n \in up : n.align = "right",
         orderedList   |-> \E n \in up : n.tag = "ol",
         unorderedList |-> \E n \in up : n.tag = "ul"]

\* A selection change by the user, or a user's command or input that changed
\* the document.
SelectionOrMutation ==
    \/ sel' # sel /\ edLast' = "none"
    \/ edLast' = "userChange"

HandedToPrimitive(root, s, command) ==
    IF command \in {"fontSize", "foreColor", "hiliteColor"}
    THEN LET f == changeFontSeed(root, s)
         IN  applyFormatSeed(f.doc, f.sel, command)
    ELSE applyFormatSeed(root, s, command)

\* The placeholder is in the document and holds the selection.
SeededAndSelected(x) ==
    /\ ~MarkupIsBlank(x.doc)
    /\ x.sel.kind = "in"
    /\ x.sel.path = <<1>>

SeededCommands ==
    {"justifyLeft", "justifyCenter", "justifyRight", "insertOrderedList",
     "insertUnorderedList", "fontSize", "foreColor", "hiliteColor"}

\* C22 as stated: for each delegated command (alignment, ordered and
\* unordered list, undo, redo, font size, text colour, background colour), if
\* the document is empty when the command is invoked, a placeholder is seeded
\* and selected before the command is delegated, so the primitive never runs
\* against an empty document.
C22_SeededBeforeDelegation ==
    MarkupIsBlank(doc) =>
        \A command \in SeededCommands \cup {"undo", "redo"} :
            SeededAndSelected(HandedToPrimitive(doc, sel, command))

\* C22 amended: the same for the alignment, list, font size and colour
\* commands; undo and redo are delegated on the document as it is.
C22_SeededExceptUndoRedo ==
    /\ MarkupIsBlank(doc) =>
           \A command \in SeededCommands :
               SeededAndSelected(HandedToPrimitive(doc, sel, command))
    /\ \A command \in {"undo", "redo"} :
           HandedToPrimitive(doc, sel, command) = [doc |-> doc, sel |-> sel]

\* A list command was invoked on the empty document and left its seeded
\* placeholder selected.
C22_Witness ==
    /\ edLast = "userChange"
    /\ doc.kids = <<Element("div", <<TextNode(ListItemText)>>)>>
    /\ sel = InRange(<<1>>, 0, 1)

\* The number of elements with the given tag in a subtree.
RECURSIVE CountTag(_, _)
CountTag(kids, tag) ==
    IF kids = <<>> THEN 0
    ELSE (IF Head(kids).tag = tag THEN 1 ELSE 0)
             + CountTag(Head(kids).kids, tag) + CountTag(Tail(kids), tag)

\* The tag occurs on the path from the selection's container up to the
\* surface, above the container's parent element or at the container itself.
TagOnlyFurtherUp(root, s, tag) ==
    /\ s.kind = "in"
    /\ ParentTag(root, s) # tag
    /\ \E i \in 1..Len(s.path) : NodeAt(root, SubSeq(s.path, 1, i)).tag = tag

\* C23: toggle-wrap takes the unwrap path iff the parent element of the
\* selection's common ancestor container has exactly the target tag; when the
\* tag occurs only further up the ancestor chain the command wraps again,
\* nesting the tag, and removes no ancestor element.
C23_ShallowUnwrap ==
    [][ \A tag \in {"strong", "em"} :
          (ToggleClickWithin(tag, DeepNodes) /\ sel.kind = "in") =>
              /\ (ParentTag(doc, sel) = tag) <=>
                     (CountTag(doc'.kids, tag) = CountTag(doc.kids, tag) - 1)
              /\ (ParentTag(doc, sel) # tag) =>
                     /\ CountTag(doc'.kids, tag) = CountTag(doc.kids, tag) + 1
                     /\ \A other \in {"strong", "em"} \ {tag} :
                            CountTag(doc'.kids, other) = CountTag(doc.kids, other) ]_vars

\* A toggle was applied with its tag further up the chain only, and nested it.
C23_Witness ==
    /\ edLast = "userChange"
    /\ \E i \in 1..Len(doc.kids) :
           /\ doc.kids[i].tag = "strong"
           /\ CountTag(doc.kids[i].kids, "strong") >= 1
           /\ CountTag(doc.kids[i].kids, "em") >= 1

\* A cancellation of the link form: Escape, Cancel, or a pointer press
\* outside the form while it is open.
LinkCancelled ==
    \/ CancelLink
    \/ form.showLinkDropdown /\ \E target \in {"outside", "image"} : FormMouseDown(target)

\* A cancellation of the image form.
ImageCancelled ==
    \/ CancelImage
    \/ form.showImageDropdown /\ \E target \in {"outside", "link"} : FormMouseDown(target)

\* C24: every cancellation path of the link form and of the image form
\* (Escape in an input, the Cancel button, a pointer press outside the form)
\* closes that form, empties its fields, leaves the document unchanged and
\* emits no change notification; the form reopened afterwards shows no text
\* of the cancelled attempt (the link form shows the selected text, if any).
C24_CancelDiscards ==
    [][ /\ LinkCancelled =>
              /\ ~form'.showLinkDropdown
              /\ form'.linkUrl = <<>> /\ form'.linkText = <<>>
              /\ doc' = doc /\ emitted' = emitted
        /\ ImageCancelled =>
              /\ ~form'.showImageDropdown
              /\ form'.imageUrl = <<>> /\ form'.imageAlt = <<>>
              /\ doc' = doc /\ emitted' = emitted
        /\ (CreateLink /\ ~form.showLinkDropdown) =>
              /\ form'.linkUrl = <<>>
              /\ form'.linkText \in {<<>>, SelectedText(doc, sel)}
        /\ (OpenImage /\ ~form.showImageDropdown) =>
              /\ form'.imageUrl = <<>> /\ form'.imageAlt = <<>> ]_vars

\* C27: the link form and the image form are never open at the same time.
C27_FormsExclusive == ~(form.showLinkDropdown /\ form.showImageDropdown)

\* A form was cancelled over a document with content: both forms are closed
\* and empty, and nothing was emitted.
C24_Witness ==
    /\ edLast = "cancel"
    /\ form = FormClosed
    /\ doc.kids # <<>>
    /\ ~emitted.some

\* C25: whenever FormattingState reports bold or italic (likewise underline,
\* strikethrough) as active for the current selection, the corresponding
\* toggle-wrap command leaves FormattingState reporting it as inactive for
\* the resulting selection.
C25_ActiveToggleTurnsOff ==
    [][ \A tag \in {"strong", "em"} :
          ( /\ ToggleClickWithin(tag, DeepNodes)
            /\ sel.kind = "in"
            /\ formattingState = FlagsOfAnchor(doc, sel)
            /\ formattingState[ToolbarFormat(tag)] )
          => ~formattingState'[ToolbarFormat(tag)] ]_vars

\* A text without the zero-width placeholder characters.
RECURSIVE WithoutZWSP(_)
WithoutZWSP(text) ==
    IF text = <<>> THEN <<>>
    ELSE (IF Head(text) = ZWSP THEN <<>> ELSE <<Head(text)>>) \o WithoutZWSP(Tail(text))

C28_DisabledIsInert ==
    [][ (disabled /\ edLast' \notin {"hostWrite", "hostKeep"}) =>
            (doc' = doc /\ emitted' = emitted) ]_vars

\* C29: after Edit or Delete is activated from an event's action menu no
\* action menu is open, the host callback or the navigation has been
\* triggered exactly once with that event's id, the grid has not altered the
\* event set, and the event-click callback has been invoked neither by that
\* activation nor by the activation of the menu trigger.
C29_MenuActionEffects ==
    [][ /\ (gridLast'.op = "edit") =>
              /\ dropdownOpenId' = NoId /\ DisplayedMenus' = {}
              /\ scheduleData' = scheduleData
              /\ gridLast'.calls \in
                     { << [fn |-> "handleEdit", arg |-> gridLast'.id] >>,
                       << [fn |-> "window.open",
                           arg |-> editUrl \o <<"/">> \o NoPad(gridLast'.id)] >> }
        /\ (gridLast'.op = "delete") =>
              /\ dropdownOpenId' = NoId /\ DisplayedMenus' = {}
              /\ scheduleData' = scheduleData
              /\ gridLast'.calls = << [fn |-> "handleDelete", arg |-> gridLast'.id] >>
        /\ (gridLast'.op = "toggle") =>
              \A i \in 1..Len(gridLast'.calls) : gridLast'.calls[i].fn # "onEventClick" ]_vars

\* Delete was activated in the menu of an event that is still in the grid.
C29_Witness ==
    /\ gridLast.op = "delete"
    /\ gridLast.was = gridLast.id
    /\ \E i \in 1..Len(scheduleData) : scheduleData[i].id = gridLast.id

\* a + b of two fractions.
FracSum(a, b) == Frac(a.num * b.den + b.num * a.den, a.den * b.den)

\* C30: every rendered event card lies within the vertical extent of the
\* grid.  For every visible event with start < end, in a window with
\* windowStart < windowEnd, in compact and in normal mode, 0 <= top% and
\* top% + rendered height% <= 100, the height with its minimum-height floor.
C30_CardWithinGrid ==
    ClockMinutes(propStartTime) < ClockMinutes(propEndTime) =>
        \A c \in Columns : \A ev \in Range(RenderedEvents(c)) :
            WellFormed(ev) =>
                /\ ~FracLess(Top(ev), Frac(0, 1))
                /\ ~FracLess(Frac(100, 1), FracSum(Top(ev), RenderedHeight(ev)))

T1601 == <<"1", "6", ":", "0", "1">>

\* The windows of the layout runs and one that ends a minute after 16:00, so
\* that a one-minute event can end exactly where the window ends.
ExtentWindows == Windows \cup { <<T0700, T1601>> }

ExtentInit ==
    /\ scheduleData = <<>>
    /\ days = defaultDays
    /\ \E w \in ExtentWindows : propStartTime = w[1] /\ propEndTime = w[2]
    /\ showActions = TRUE
    /\ dropdownOpenId = NoId
    /\ dropdownRefs = [id \in EventIds |-> NoCol]
    /\ buttonRefs = [id \in EventIds |-> NoCol]
    /\ gridLast = [op |-> "init", col |-> NoCol, id |-> NoId, was |-> NoId]
    /\ handleEdit = TRUE
    /\ handleDelete = TRUE
    /\ editUrl = <<>>
    /\ compact \in BOOLEAN
    /\ EditorQuiet

ExtentNext ==
    \/ \E e \in LayoutEvents : HostAddEvent(e)
    \/ \E i \in 1..MaxEvents : HostRemoveEvent(i)
    \/ \E w \in ExtentWindows : HostSetWindow(w)

\* The layout functions of the grid with windows that end at an event's end.
ExtentSpec == ExtentInit /\ [][ExtentNext]_vars

\* A rendered well-formed event whose computed height is below the floor.
C30_FloorApplies ==
    \E c \in Columns : \E ev \in Range(RenderedEvents(c)) :
        /\ WellFormed(ev)
        /\ FracLess(RenderedHeight_NoFloor(ev), RenderedHeight(ev))

====
